---- MODULE Spec2Model ----
(***************************************************************************)
(* KVR (KeyVault Registry) authentication core.                            *)
(*                                                                         *)
(* The model covers the API key validator and usage updater, the hybrid    *)
(* and API-key-only middlewares, the unified JWT middleware, the scope     *)
(* guard, key issuance and the tenant-filtered resource service.           *)
(* Strings that the code inspects character by character (header values,   *)
(* raw keys, tokens) are sequences of one-character strings.               *)
(***************************************************************************)
EXTENDS Integers, Sequences, FiniteSets, TLC

(***************************************************************************)
(* Bounds of the model                                                     *)
(***************************************************************************)
MaxTicks == 3          \* the clock advances at most this many ticks
TickMs == 1800000      \* milliseconds per clock tick
MaxPending == 1        \* usage updates in flight at once
MaxUsage == 2          \* cap on the usage updates fired
MaxIssued == 1         \* keys issued through POST /api-keys
MaxRoleLen == 4        \* length of the role names enumerated
MaxInFlight == 2       \* requests on one key between validation and usage
MaxRequests == 3       \* requests presenting the key in one behaviour
MaxFetches == 2        \* getSigningKey calls waiting for their fetch

(***************************************************************************)
(* Program constants                                                       *)
(***************************************************************************)
HourMs == 3600000      \* rate-limit window length
RetryAfterSecs == 3600 \* retryAfter sent with a 429
KeyPrefixLen == 12     \* getKeyPrefix

Null == "null"         \* JS null / undefined for string-valued fields
NoDate == 0 - 1        \* JS null for Date-valued fields
NoText == << >>        \* absent header / empty string (both falsy)

Orgs == {"o1", "o2"}
ResourceIds == {"r1", "r2"}
Scopes == {"resources:read", "resources:write"}

(***************************************************************************)
(* Text helpers                                                            *)
(***************************************************************************)
StartsWith(s, p) == Len(s) >= Len(p) /\ SubSeq(s, 1, Len(p)) = p

Substring(s, from) == SubSeq(s, from + 1, Len(s))

BearerPrefix == <<"B", "e", "a", "r", "e", "r", " ">>

Bearer(t) == BearerPrefix \o t

(***************************************************************************)
(* Key material                                                            *)
(***************************************************************************)
HexChars == {"a", "f"}

\* crypto.randomBytes(32).toString('hex'), shortened to nine hex digits so
\* that a key is longer than its display prefix
RandomHex == {<<c, "0", "0", "0", "0", "0", "0", "0", c>> : c \in HexChars}

KvrPrefix == <<"k", "v", "r", "_">>

generateApiKey(randomBytes) == KvrPrefix \o randomBytes

\* SHA-256 is modelled as an injective tagging of the input
hashApiKey(key) == <<"sha256", key>>

getKeyPrefix(key) ==
    SubSeq(key, 1, IF Len(key) < KeyPrefixLen THEN Len(key) ELSE KeyPrefixLen)

validPrefixes == {<<"o", "r", "c", "_">>, <<"a", "k", "_">>, <<"s", "k", "_">>}

HasValidPrefix(t) == \E p \in validPrefixes : StartsWith(t, p)

\* extractApiKey(req): the presented key, or NoText when none is recognised
extractApiKey(headers) ==
    IF headers.xApiKey # NoText /\ HasValidPrefix(headers.xApiKey)
    THEN headers.xApiKey
    ELSE IF headers.authorization # NoText
            /\ StartsWith(headers.authorization, BearerPrefix)
            /\ HasValidPrefix(Substring(headers.authorization, 7))
         THEN Substring(headers.authorization, 7)
         ELSE NoText

(***************************************************************************)
(* API key validator                                                       *)
(***************************************************************************)
NoRow == [id |-> 0]

ErrInvalid == "Invalid API key"
ErrInactive == "API key is inactive"
ErrExpired == "API key has expired"
ErrOrg == "API key does not belong to the requested organization"
ErrRate == "Rate limit exceeded"
ErrScope == "Missing required scope"
ErrWorkflow == "API key does not have access to this workflow"

Invalid(err, limited, store, didReset) ==
    [valid |-> FALSE, error |-> err, rateLimited |-> limited,
     apiKey |-> NoRow, store |-> store, didReset |-> didReset]

FindByHash(store, keyHash) == {id \in DOMAIN store : store[id].keyHash = keyHash}

\* the window reset written by validateApiKey; the first definition is the
\* variant that moves the instant but keeps the counter
ResetWindowKeepsCount(store, id, now) ==
    [store EXCEPT ![id].rateLimitReset = now + HourMs]

ResetWindow(store, id, now) ==
    [store EXCEPT ![id].rateLimitUsed = 0,
                  ![id].rateLimitReset = now + HourMs]

\* the limit check admitting one request more than the limit
RateLimitedStrict(apiKey) == apiKey.rateLimitUsed > apiKey.rateLimit

RateLimited(apiKey) == apiKey.rateLimitUsed >= apiKey.rateLimit

ScopeMissing(apiKey, requiredScope) ==
    requiredScope # Null /\ requiredScope \notin apiKey.scopes

WorkflowDenied(apiKey, resourceId) ==
    /\ resourceId # Null
    /\ apiKey.workflowIds # {}
    /\ resourceId \notin apiKey.workflowIds

\* the checks that follow the window reset, on the in-memory record; the
\* first definition is the variant that looks at the scope before the limit
CheckLimitsScopeFirst(apiKey, store, requiredScope, resourceId, didReset) ==
    IF ScopeMissing(apiKey, requiredScope)
    THEN [valid |-> FALSE, error |-> "Missing required scope",
          rateLimited |-> FALSE, apiKey |-> [id |-> 0], store |-> store,
          didReset |-> didReset]
    ELSE IF RateLimited(apiKey)
    THEN [valid |-> FALSE, error |-> "Rate limit exceeded",
          rateLimited |-> TRUE, apiKey |-> [id |-> 0], store |-> store,
          didReset |-> didReset]
    ELSE IF WorkflowDenied(apiKey, resourceId)
    THEN [valid |-> FALSE,
          error |-> "API key does not have access to this workflow",
          rateLimited |-> FALSE, apiKey |-> [id |-> 0], store |-> store,
          didReset |-> didReset]
    ELSE [valid |-> TRUE, error |-> "", rateLimited |-> FALSE,
          apiKey |-> apiKey, store |-> store, didReset |-> didReset]

CheckLimits(apiKey, store, requiredScope, resourceId, didReset) ==
    IF RateLimited(apiKey)
    THEN Invalid(ErrRate, TRUE, store, didReset)
    ELSE IF ScopeMissing(apiKey, requiredScope)
    THEN Invalid(ErrScope, FALSE, store, didReset)
    ELSE IF WorkflowDenied(apiKey, resourceId)
    THEN Invalid(ErrWorkflow, FALSE, store, didReset)
    ELSE [valid |-> TRUE, error |-> "", rateLimited |-> FALSE,
          apiKey |-> apiKey, store |-> store, didReset |-> didReset]

validateApiKey(store, now, key, requiredScope, resourceId, requestedOrgId) ==
    LET ids == FindByHash(store, hashApiKey(key))
    IN  IF ids = {}
        THEN Invalid(ErrInvalid, FALSE, store, FALSE)
        ELSE
        LET apiKey == store[CHOOSE id \in ids : TRUE]
            windowPast == apiKey.rateLimitReset # NoDate
                          /\ apiKey.rateLimitReset < now
        IN  IF ~apiKey.isActive
            THEN Invalid(ErrInactive, FALSE, store, FALSE)
            ELSE IF apiKey.expiresAt # NoDate /\ apiKey.expiresAt < now
            THEN Invalid(ErrExpired, FALSE, store, FALSE)
            ELSE IF /\ requestedOrgId # Null
                    /\ apiKey.orgId # Null
                    /\ apiKey.orgId # requestedOrgId
            THEN Invalid(ErrOrg, FALSE, store, FALSE)
            ELSE IF windowPast
            THEN CheckLimits([apiKey EXCEPT !.rateLimitUsed = 0],
                             ResetWindow(store, apiKey.id, now),
                             requiredScope, resourceId, TRUE)
            ELSE CheckLimits(apiKey, store, requiredScope, resourceId, FALSE)

(***************************************************************************)
(* The API key routes: what they select and write                          *)
(***************************************************************************)
\* the columns of prisma.apiKey the model keeps
KeyColumns ==
    {"id", "keyHash", "keyPrefix", "userId", "orgId", "scopes",
     "workflowIds", "rateLimit", "rateLimitUsed", "rateLimitReset",
     "usageCount", "isActive", "expiresAt"}

\* select: { ... } applied to a row
Select(row, fields) == [f \in fields |-> row[f]]

\* the select clauses of the routes; the first definition is a list
\* clause that also names the hash
ListFieldsWithHash ==
    {"id", "keyHash", "keyPrefix", "scopes", "workflowIds", "rateLimit",
     "usageCount", "expiresAt", "isActive"}

ListFields ==
    {"id", "keyPrefix", "scopes", "workflowIds", "rateLimit", "usageCount",
     "expiresAt", "isActive"}

CreateFields ==
    {"id", "keyPrefix", "scopes", "workflowIds", "rateLimit", "expiresAt",
     "isActive"}

GetFields ==
    {"id", "keyPrefix", "scopes", "workflowIds", "rateLimit",
     "rateLimitUsed", "rateLimitReset", "usageCount", "expiresAt",
     "isActive"}

UpdateFields ==
    {"id", "keyPrefix", "scopes", "workflowIds", "rateLimit", "expiresAt",
     "isActive"}

RegenerateFields == {"id", "keyPrefix"}

StatsFields ==
    {"id", "usageCount", "rateLimit", "rateLimitUsed", "rateLimitReset"}

\* the columns the update of the regenerate route writes
RegenerateData == {"keyHash", "keyPrefix", "usageCount", "rateLimitUsed"}

\* buildTenantFilter(context), as a test on a row
TenantFilter(context, row) ==
    IF context.orgId # Null THEN row.orgId = context.orgId
    ELSE IF context.userId # Null THEN row.userId = context.userId
    ELSE TRUE

(***************************************************************************)
(* Stores the middlewares read: users and signed tokens                    *)
(***************************************************************************)
\* prisma.usuario: the "ghost" owner of a key has no row
Usuarios ==
    [u \in {"u1", "u2"} |->
        IF u = "u1" THEN [id |-> "u1", roles |-> <<"ADMIN">>]
                    ELSE [id |-> "u2", roles |-> << >>]]

TahIssuer == "https://tah.yourdomain.com"
TahAudience == "kvr"

Jwt(n) == <<"e", "y", "J", n>>

NoAud == [isArray |-> FALSE, vals |-> {}]

\* a permission string `resource:action`, kept as the pieces split(':') cuts
Perm(resource, action) == <<resource, ":", action>>

\* the `roles` claim of a payload: absent, or an array (an empty array is
\* present, and truthy)
NoRoles == [present |-> FALSE, list |-> << >>]

RolesClaim(list) == [present |-> TRUE, list |-> list]

\* jwt.decode(token): the unverified payload of each well-formed token.
\* hs256 says the token carries a valid signature of the local secret,
\* rs256 that it verifies against the TAH signing key.
JwtTable ==
    [t \in {Jwt("1"), Jwt("2"), Jwt("3"), Jwt("4"), Jwt("5"), Jwt("6"),
            Jwt("7"), Jwt("8"), Jwt("9"), Jwt("A"), Jwt("B"), Jwt("C"),
            Jwt("D"), Jwt("E"), Jwt("F")} |->
        CASE t = Jwt("1") ->
               [hs256 |-> TRUE, rs256 |-> FALSE, iss |-> "kvr-local",
                aud |-> NoAud, exp |-> NoDate, userId |-> "u1",
                email |-> "ana@kvr.io",
                orgId |-> "o1", orgIds |-> {"o1", "o2"},
                roles |-> NoRoles,
                role |-> "ADMIN", permissions |-> {}]
          [] t = Jwt("2") ->
               [hs256 |-> TRUE, rs256 |-> FALSE, iss |-> "kvr-local",
                aud |-> NoAud, exp |-> NoDate, userId |-> "u2",
                email |-> "bo@kvr.io",
                orgId |-> "o1", orgIds |-> {},
                roles |-> NoRoles,
                role |-> Null, permissions |-> {}]
          [] t = Jwt("3") ->
               [hs256 |-> TRUE, rs256 |-> FALSE, iss |-> "kvr-local",
                aud |-> NoAud, exp |-> NoDate, userId |-> "u2",
                email |-> "bo@kvr.io",
                orgId |-> Null, orgIds |-> {},
                roles |-> NoRoles,
                role |-> "USER", permissions |-> {}]
          [] t = Jwt("4") ->
               [hs256 |-> FALSE, rs256 |-> FALSE, iss |-> "kvr-local",
                aud |-> NoAud, exp |-> NoDate, userId |-> "u1",
                email |-> "ana@kvr.io",
                orgId |-> "o2", orgIds |-> {"o2"},
                roles |-> NoRoles,
                role |-> "OWNER", permissions |-> {}]
          [] t = Jwt("7") ->
               [hs256 |-> TRUE, rs256 |-> FALSE, iss |-> "kvr-local",
                aud |-> NoAud, exp |-> NoDate, userId |-> "u1",
                email |-> "ana@kvr.io",
                orgId |-> "o2", orgIds |-> {"o2"},
                roles |-> NoRoles,
                role |-> "OWNER", permissions |-> {}]
          [] t = Jwt("5") ->
               [hs256 |-> FALSE, rs256 |-> TRUE, iss |-> TahIssuer,
                aud |-> [isArray |-> TRUE, vals |-> {TahAudience}],
                exp |-> NoDate, userId |-> "tah-1",
                email |-> "cy@tah.io",
                orgId |-> "o2", orgIds |-> {"o2"},
                roles |-> NoRoles,
                role |-> "ADMIN",
                permissions |-> {Perm("resources", "read"),
                                 <<"wf", ".", "list", ":", "*">>}]
          [] t = Jwt("8") ->
               [hs256 |-> FALSE, rs256 |-> TRUE, iss |-> "https://idp.tah",
                aud |-> [isArray |-> FALSE, vals |-> {TahAudience}],
                exp |-> NoDate, userId |-> "tah-1",
                email |-> "cy@tah.io",
                orgId |-> "o2", orgIds |-> {"o2"},
                roles |-> NoRoles,
                role |-> "ADMIN", permissions |-> {}]
          [] t = Jwt("9") ->
               [hs256 |-> FALSE, rs256 |-> TRUE, iss |-> TahIssuer,
                aud |-> [isArray |-> TRUE, vals |-> {TahAudience}],
                exp |-> NoDate, userId |-> "tah-2",
                email |-> "di@tah.io",
                orgId |-> Null, orgIds |-> {},
                roles |-> NoRoles,
                role |-> Null, permissions |-> {Perm("billing", "*")}]
          [] t = Jwt("E") ->
               [hs256 |-> TRUE, rs256 |-> FALSE, iss |-> "kvr-local",
                aud |-> NoAud, exp |-> NoDate, userId |-> "u2",
                email |-> "bo@kvr.io",
                orgId |-> "o1", orgIds |-> {"o1"},
                roles |-> RolesClaim(<< >>),
                role |-> Null, permissions |-> {}]
          [] t = Jwt("F") ->
               [hs256 |-> TRUE, rs256 |-> FALSE, iss |-> "kvr-local",
                aud |-> NoAud, exp |-> NoDate, userId |-> "u1",
                email |-> "ana@kvr.io",
                orgId |-> "o1", orgIds |-> {"o1"},
                roles |-> RolesClaim(<<"ADMIN", "DEVELOPER">>),
                role |-> Null, permissions |-> {}]
          [] t \in {Jwt("A"), Jwt("B"), Jwt("C"), Jwt("D")} ->
               [hs256 |-> FALSE, rs256 |-> TRUE, iss |-> TahIssuer,
                aud |-> [isArray |-> TRUE, vals |-> {TahAudience}],
                exp |-> NoDate, userId |-> "tah-1",
                email |-> "cy@tah.io",
                orgId |-> "o2", orgIds |-> {"o2"},
                roles |-> NoRoles,
                role |-> "USER",
                permissions |->
                    CASE t = Jwt("A") -> {<<"*">>}
                      [] t = Jwt("B") -> {Perm("wf", "read"),
                                          <<"resources", ".", "x", ":",
                                            "write">>}
                      [] t = Jwt("C") -> {Perm("*", "read")}
                      [] OTHER -> {}]
          [] OTHER ->
               [hs256 |-> FALSE, rs256 |-> FALSE, iss |-> TahIssuer,
                aud |-> NoAud, exp |-> NoDate, userId |-> "tah-2",
                email |-> "di@tah.io",
                orgId |-> Null, orgIds |-> {},
                roles |-> NoRoles,
                role |-> Null, permissions |-> {}]]

IsWellFormedJwt(token) == token \in DOMAIN JwtTable

\* jwt.verify(token, JWT_SECRET): TRUE when it returns the payload
LocalVerifies(token, now) ==
    /\ IsWellFormedJwt(token)
    /\ JwtTable[token].hs256
    /\ (JwtTable[token].exp = NoDate \/ now < JwtTable[token].exp)

verifyAccessToken(token) == JwtTable[token]

(***************************************************************************)
(* Request outcome                                                         *)
(***************************************************************************)
NoUser ==
    [id |-> Null, orgId |-> Null, orgIds |-> {}, roles |-> << >>,
     permissions |-> {}, authSource |-> Null]

NoKeyCtx == [id |-> 0, scopes |-> {}, workflowIds |-> {}, orgId |-> Null]

NoValidation ==
    [called |-> FALSE, valid |-> FALSE, error |-> "", rateLimited |-> FALSE,
     didReset |-> FALSE, apiKey |-> NoRow]

\* what validateApiKey returned to the middleware
Returned(v) ==
    [called |-> TRUE, valid |-> v.valid, error |-> v.error,
     rateLimited |-> v.rateLimited, didReset |-> v.didReset,
     apiKey |-> v.apiKey]

\* nothing sent, nothing called
Pending(store) ==
    [status |-> 0, responses |-> 0, nextCalled |-> 0, error |-> "",
     retryAfter |-> 0, rateLimited |-> FALSE, user |-> NoUser,
     apiKey |-> NoKeyCtx, authMethod |-> Null, org |-> Null,
     store |-> store, usage |-> 0, validation |-> NoValidation,
     validator |-> Null]

\* res.status(code).json({success: false, error})
Respond(out, code, err) ==
    [out EXCEPT !.status = code, !.responses = @ + 1, !.error = err]

FirstRole(roles) == IF Len(roles) > 0 THEN roles[1] ELSE "USER"

KeyCtx(apiKey, withOrg) ==
    [id |-> apiKey.id, scopes |-> apiKey.scopes,
     workflowIds |-> apiKey.workflowIds,
     orgId |-> IF withOrg THEN apiKey.orgId ELSE Null]

\* status sent when validateApiKey fails
RejectInvalidKey(out, v) ==
    IF v.rateLimited
    THEN [Respond(out, 429, v.error) EXCEPT !.retryAfter = RetryAfterSecs,
                                            !.rateLimited = TRUE]
    ELSE Respond(out, 401, v.error)

(***************************************************************************)
(* authenticateHybrid(options): the middleware the factory returns         *)
(***************************************************************************)
\* what the hybrid middleware does with the validator's answer v
HybridAdmit(v, requestedOrgId) ==
    LET out == [Pending(v.store) EXCEPT !.validation = Returned(v)]
    IN  IF ~v.valid
        THEN RejectInvalidKey(out, v)
        ELSE IF v.apiKey.userId \notin DOMAIN Usuarios
        THEN Respond(out, 401, "API key owner not found")
        ELSE
        LET user == Usuarios[v.apiKey.userId]
            apiKeyOrgId == IF v.apiKey.orgId # Null THEN v.apiKey.orgId
                           ELSE requestedOrgId
        IN  [out EXCEPT
               !.user = [id |-> user.id, orgId |-> apiKeyOrgId,
                         orgIds |-> IF apiKeyOrgId # Null
                                    THEN {apiKeyOrgId} ELSE {},
                         roles |-> user.roles, permissions |-> {},
                         authSource |-> Null],
               !.apiKey = KeyCtx(v.apiKey, TRUE),
               !.authMethod = "api_key",
               !.org = apiKeyOrgId,
               !.usage = v.apiKey.id,
               !.nextCalled = @ + 1]

HybridApiKeyBranch(store, now, options, req, key) ==
    HybridAdmit(validateApiKey(store, now, key, options.scope,
                               IF options.resourceIdParam # Null
                               THEN req.paramId ELSE Null,
                               req.headers.xOrg),
                req.headers.xOrg)

HybridJwtBranch(store, now, req) ==
    LET authHeader == req.headers.authorization
        out == Pending(store)
    IN  IF authHeader = NoText \/ ~StartsWith(authHeader, BearerPrefix)
        THEN Respond(out, 401, "No authentication provided")
        ELSE
        LET token == Substring(authHeader, 7)
        IN  IF ~LocalVerifies(token, now)
            THEN Respond(out, 401, "Invalid or expired token")
            ELSE
            LET decoded == verifyAccessToken(token)
                requestedOrgId == req.headers.xOrg
                tokenOrgIds == decoded.orgIds
                checked == requestedOrgId # Null /\ tokenOrgIds # {}
                effectiveOrgId == IF checked THEN requestedOrgId
                                  ELSE decoded.orgId
            IN  IF checked /\ requestedOrgId \notin tokenOrgIds
                THEN Respond(out, 403,
                             "Access denied to requested organization")
                ELSE [out EXCEPT
                        !.user = [id |-> decoded.userId,
                                  orgId |-> effectiveOrgId,
                                  orgIds |-> tokenOrgIds,
                                  roles |-> IF decoded.role # Null
                                            THEN <<decoded.role>>
                                            ELSE <<"USER">>,
                                  permissions |-> {},
                                  authSource |-> Null],
                        !.authMethod = "jwt",
                        !.org = effectiveOrgId,
                        !.nextCalled = @ + 1]

HybridHandler(store, now, options, req) ==
    LET key == extractApiKey(req.headers)
    IN  IF key # NoText
        THEN HybridApiKeyBranch(store, now, options, req, key)
        ELSE HybridJwtBranch(store, now, req)

\* Express calling authenticateHybrid itself as the middleware, as the
\* resource and project routes mount it: the call destructures the request
\* as options and returns the handler, which nobody invokes.
authenticateHybridUnapplied(store, now, req) == Pending(store)

(***************************************************************************)
(* authenticateApiKeyOnly(options)                                         *)
(***************************************************************************)
\* what the API-key-only middleware does with the validator's answer v
ApiKeyOnlyAdmit(v) ==
    LET out == [Pending(v.store) EXCEPT !.validation = Returned(v)]
    IN  IF ~v.valid
        THEN RejectInvalidKey(out, v)
        ELSE IF v.apiKey.userId \notin DOMAIN Usuarios
        THEN Respond(out, 401, "API key owner not found")
        ELSE [out EXCEPT
                !.user = [id |-> v.apiKey.userId, orgId |-> Null,
                          orgIds |-> {},
                          roles |-> Usuarios[v.apiKey.userId].roles,
                          permissions |-> {}, authSource |-> Null],
                !.apiKey = KeyCtx(v.apiKey, FALSE),
                !.authMethod = "api_key",
                !.usage = v.apiKey.id,
                !.nextCalled = @ + 1]

ApiKeyOnlyHandler(store, now, options, req) ==
    LET key == extractApiKey(req.headers)
    IN  IF key = NoText
        THEN Respond(Pending(store), 401, "API Key required")
        ELSE ApiKeyOnlyAdmit(
                 validateApiKey(store, now, key, options.scope,
                                IF options.resourceIdParam # Null
                                THEN req.paramId ELSE Null,
                                Null))

(***************************************************************************)
(* authenticate: the unified JWT middleware                                *)
(***************************************************************************)
isTahEnabled(cfg) == cfg.tahEnabled /\ cfg.authMode \in {"tah", "dual"}

isLocalEnabled(cfg) == cfg.authMode \in {"local", "dual"}

isTahToken(token) ==
    /\ IsWellFormedJwt(token)
    /\ \/ JwtTable[token].iss = TahIssuer
       \/ /\ JwtTable[token].aud.isArray
          /\ TahAudience \in JwtTable[token].aud.vals

\* jwt.verify(token, signingKey, {issuer, audience}): TRUE when it returns
TahVerifies(token, now) ==
    /\ IsWellFormedJwt(token)
    /\ JwtTable[token].rs256
    /\ JwtTable[token].iss = TahIssuer
    /\ TahAudience \in JwtTable[token].aud.vals
    /\ (JwtTable[token].exp = NoDate \/ now < JwtTable[token].exp)

validateTahToken(token) ==
    LET payload == JwtTable[token]
    IN  [id |-> payload.userId, orgId |-> payload.orgId,
         orgIds |-> IF payload.orgIds # {} THEN payload.orgIds
                    ELSE {payload.orgId} \ {Null},
         roles |-> IF payload.role # Null THEN <<payload.role>>
                   ELSE <<"USER">>,
         permissions |-> payload.permissions, authSource |-> "tah"]

validateLocalToken(token) ==
    LET decoded == verifyAccessToken(token)
    IN  [id |-> decoded.userId, orgId |-> decoded.orgId,
         orgIds |-> decoded.orgIds,
         roles |-> IF decoded.roles.present THEN decoded.roles.list
                   ELSE IF decoded.role # Null THEN <<decoded.role>>
                   ELSE <<"USER">>,
         permissions |-> {}, authSource |-> "local"]

DEV_USER ==
    [id |-> "dev-user", orgId |-> Null, orgIds |-> {},
     roles |-> <<"DEVELOPER">>, permissions |-> {},
     authSource |-> "dev-bypass"]

extractToken(headers) ==
    IF headers.authorization # NoText
       /\ StartsWith(headers.authorization, BearerPrefix)
    THEN Substring(headers.authorization, 7)
    ELSE NoText

\* validateToken(token): the validator it hands the token to, "none" when
\* it throws 'No valid authentication method available'
TokenRoute(cfg, token) ==
    IF isTahEnabled(cfg) /\ isTahToken(token) THEN "tah"
    ELSE IF isLocalEnabled(cfg) THEN "local"
    ELSE "none"

authenticate(cfg, store, now, req) ==
    LET token == extractToken(req.headers)
        route == TokenRoute(cfg, token)
        out == [Pending(store) EXCEPT
                  !.validator = IF token = NoText THEN Null ELSE route]
    IN  IF token = NoText
        THEN IF cfg.bypass
             THEN [out EXCEPT !.user = DEV_USER, !.nextCalled = @ + 1]
             ELSE Respond(out, 401, "No token provided")
        ELSE IF route = "tah" /\ TahVerifies(token, now)
        THEN [out EXCEPT !.user = validateTahToken(token),
                         !.nextCalled = @ + 1]
        ELSE IF route = "local" /\ LocalVerifies(token, now)
        THEN [out EXCEPT !.user = validateLocalToken(token),
                         !.nextCalled = @ + 1]
        ELSE Respond(out, 401, "Invalid or expired token")

\* optionalAuth: as authenticate, but a missing or failing credential is
\* passed on without a principal
optionalAuth(cfg, store, now, req) ==
    LET token == extractToken(req.headers)
        route == TokenRoute(cfg, token)
        out == [Pending(store) EXCEPT
                  !.nextCalled = @ + 1,
                  !.validator = IF token = NoText THEN Null ELSE route]
    IN  IF token = NoText
        THEN IF cfg.bypass THEN [out EXCEPT !.user = DEV_USER] ELSE out
        ELSE IF route = "tah" /\ TahVerifies(token, now)
        THEN [out EXCEPT !.user = validateTahToken(token)]
        ELSE IF route = "local" /\ LocalVerifies(token, now)
        THEN [out EXCEPT !.user = validateLocalToken(token)]
        ELSE out

(***************************************************************************)
(* mapTahRole: TAH role names to local role names                          *)
(***************************************************************************)
\* JS values a role claim may hold: a string, or something else
Text(t) == [kind |-> "string", text |-> t]

\* Object.prototype.constructor, what TAH_ROLE_MAPPING['constructor'] is
ObjectConstructor == [kind |-> "function", text |-> << >>]

\* calling toLowerCase on a value that has none
TypeError == [kind |-> "throws", text |-> << >>]

\* the letters of the model, lower case to upper case
UpperOf ==
    [c \in {"a", "c", "d", "e", "i", "l", "m", "n", "o", "p", "r", "s", "t",
            "u", "v", "x"} |->
        CASE c = "a" -> "A" [] c = "c" -> "C" [] c = "d" -> "D"
          [] c = "e" -> "E" [] c = "i" -> "I" [] c = "l" -> "L"
          [] c = "m" -> "M"
          [] c = "n" -> "N" [] c = "o" -> "O" [] c = "p" -> "P"
          [] c = "r" -> "R" [] c = "s" -> "S" [] c = "t" -> "T"
          [] c = "u" -> "U" [] c = "v" -> "V" [] OTHER -> "X"]

UpperChar(c) == IF c \in DOMAIN UpperOf THEN UpperOf[c] ELSE c

LowerChar(c) ==
    IF \E l \in DOMAIN UpperOf : UpperOf[l] = c
    THEN CHOOSE l \in DOMAIN UpperOf : UpperOf[l] = c
    ELSE c

toUpperCase(t) == [i \in DOMAIN t |-> UpperChar(t[i])]

toLowerCase(t) == [i \in DOMAIN t |-> LowerChar(t[i])]

\* String.prototype.trim
RECURSIVE trim(_)
trim(t) ==
    IF t = << >> THEN t
    ELSE IF Head(t) = " " THEN trim(Tail(t))
    ELSE IF t[Len(t)] = " " THEN trim(SubSeq(t, 1, Len(t) - 1))
    ELSE t

\* the entries of TAH_ROLE_MAPPING the model keeps
TAH_ROLE_MAPPING ==
    [k \in {<<"d", "e", "v">>,
            <<"d", "e", "v", "e", "l", "o", "p", "e", "r">>,
            <<"u", "s", "e", "r">>,
            <<"a", "d", "m", "i", "n">>} |->
        CASE k = <<"u", "s", "e", "r">> -> <<"U", "S", "E", "R">>
          [] k = <<"a", "d", "m", "i", "n">> -> <<"A", "D", "M", "I", "N">>
          [] OTHER -> <<"D", "E", "V", "E", "L", "O", "P", "E", "R">>]

\* TAH_ROLE_MAPPING[key]: own entries, then what the object inherits
RoleLookup(key) ==
    IF key \in DOMAIN TAH_ROLE_MAPPING THEN Text(TAH_ROLE_MAPPING[key])
    ELSE IF key = <<"c", "o", "n", "s", "t", "r", "u", "c", "t", "o", "r">>
    THEN ObjectConstructor
    ELSE Text(<< >>)

\* mapTahRole(tahRole)
mapTahRole(tahRole) ==
    IF tahRole.kind = "string" /\ tahRole.text = << >>
    THEN Text(<<"U", "S", "E", "R">>)
    ELSE IF tahRole.kind # "string" THEN TypeError
    ELSE LET normalizedRole == trim(toLowerCase(tahRole.text))
         IN  IF RoleLookup(normalizedRole) # Text(<< >>)
             THEN RoleLookup(normalizedRole)
             ELSE Text(toUpperCase(tahRole.text))

(***************************************************************************)
(* The signing keys of the TAH middleware                                  *)
(***************************************************************************)
\* TAH_CONFIG.jwksCacheTtl, in seconds
JwksCacheTtl == 3600

\* a key in PEM format
Pem(format, body) == [format |-> format, body |-> body]

\* TAH_CONFIG.publicKey when TAH_PUBLIC_KEY is unset
NoPem == Pem("none", "")

Jwk(kid, kty, x5c, n) == [kid |-> kid, kty |-> kty, x5c |-> x5c, n |-> n]

\* what getSigningKey returns or throws
KeyResult(pem) == [ok |-> TRUE, key |-> pem, error |-> ""]

KeyError(message) == [ok |-> FALSE, key |-> NoPem, error |-> message]

\* jwkToPem(jwk)
jwkToPem(jwk) ==
    IF jwk.x5c # Null THEN KeyResult(Pem("CERTIFICATE", jwk.x5c))
    ELSE IF jwk.kty = "RSA" /\ jwk.n # Null
    THEN KeyResult(Pem("PUBLIC KEY", jwk.n))
    ELSE KeyError("Unsupported key type")

\* what fetch(TAH_CONFIG.jwksUrl) may come to
NetworkError == [ok |-> FALSE, status |-> 0, keys |-> << >>]

NotOk == [ok |-> FALSE, status |-> 503, keys |-> << >>]

Fetched(keys) == [ok |-> TRUE, status |-> 200, keys |-> keys]

\* the cache test of fetchJwks: TRUE when the cached set is returned
\* without a fetch; the first definition is the variant that never trusts
\* the cache
JwksFreshNever(cache, expiry, now) == FALSE

JwksFresh(cache, expiry, now) == cache.cached /\ now < expiry

\* the catch block of fetchJwks; the first definition is the variant
\* without the stale set
StaleFallbackNone(cache) == [ok |-> FALSE, keys |-> << >>]

StaleFallback(cache) ==
    IF cache.cached THEN [ok |-> TRUE, keys |-> cache.keys]
    ELSE [ok |-> FALSE, keys |-> << >>]

\* fetchJwks(): the key set it returns (ok FALSE when it throws), whether
\* it called fetch, and the cache it leaves
fetchJwks(cache, expiry, now, response) ==
    IF JwksFresh(cache, expiry, now)
    THEN [ok |-> TRUE, keys |-> cache.keys, fetched |-> FALSE,
          cache |-> cache, expiry |-> expiry]
    ELSE IF response.ok
    THEN [ok |-> TRUE, keys |-> response.keys, fetched |-> TRUE,
          cache |-> [cached |-> TRUE, keys |-> response.keys],
          expiry |-> now + JwksCacheTtl * 1000]
    ELSE [ok |-> StaleFallback(cache).ok, keys |-> StaleFallback(cache).keys,
          fetched |-> TRUE, cache |-> cache, expiry |-> expiry]

\* fetchJwks() from the point its fetch has come back, for a call that took
\* `now0` at its start: the cache it leaves and the key set it returns; the
\* first definition is the variant that forgets the cached set on a failure
fetchJwksLandedDropsStale(cache, expiry, now0, response) ==
    IF response.ok
    THEN [ok |-> TRUE, keys |-> response.keys,
          cache |-> [cached |-> TRUE, keys |-> response.keys],
          expiry |-> now0 + JwksCacheTtl * 1000]
    ELSE [ok |-> FALSE, keys |-> << >>,
          cache |-> [cached |-> FALSE, keys |-> << >>], expiry |-> 0]

fetchJwksLanded(cache, expiry, now0, response) ==
    IF response.ok
    THEN [ok |-> TRUE, keys |-> response.keys,
          cache |-> [cached |-> TRUE, keys |-> response.keys],
          expiry |-> now0 + JwksCacheTtl * 1000]
    ELSE [ok |-> StaleFallback(cache).ok, keys |-> StaleFallback(cache).keys,
          cache |-> cache, expiry |-> expiry]

\* getSigningKey(kid) goes to the network; the first definition is the
\* variant that fetches only while nothing is cached
MustFetchWhenEmpty(cfg, cache, expiry, now) ==
    cfg.publicKey = NoPem /\ ~cache.cached

MustFetch(cfg, cache, expiry, now) ==
    cfg.publicKey = NoPem /\ ~JwksFresh(cache, expiry, now)

\* jwks.keys?.find(k => k.kid === kid): positions of the keys with the kid
KidMatches(keys, kid) == {i \in DOMAIN keys : keys[i].kid = kid}

FirstOf(S) == CHOOSE i \in S : \A j \in S : i <= j

\* the steps of getSigningKey after the key set is known
FindSigningKey(keys, kid) ==
    IF KidMatches(keys, kid) = {} THEN KeyError("Signing key not found")
    ELSE jwkToPem(keys[FirstOf(KidMatches(keys, kid))])

\* getSigningKey(kid): its result, whether fetch was called, and the cache
getSigningKey(cfg, cache, expiry, now, kid, response) ==
    LET jwks == fetchJwks(cache, expiry, now, response)
    IN  IF cfg.publicKey # NoPem
        THEN [result |-> KeyResult(cfg.publicKey), fetched |-> FALSE,
              cache |-> cache, expiry |-> expiry]
        ELSE [result |-> IF jwks.ok THEN FindSigningKey(jwks.keys, kid)
                         ELSE KeyError("JWKS fetch failed"),
              fetched |-> jwks.fetched, cache |-> jwks.cache,
              expiry |-> jwks.expiry]

(***************************************************************************)
(* The shadow identity resolver of the TAH middleware                      *)
(***************************************************************************)
\* what validateTahToken hands to upsertShadowUser
TahUserOf(token) ==
    [userId |-> JwtTable[token].userId, tahUserId |-> JwtTable[token].userId,
     email |-> JwtTable[token].email, orgId |-> JwtTable[token].orgId]

\* ids prisma.usuario.create gives to new rows, in order of creation
ShadowIds == <<"s1", "s2", "s3">>

NewUserId(rows) == ShadowIds[Cardinality(DOMAIN rows) + 1]

\* the rows findFirst may return: those with the TAH id or the email
FindShadow(rows, tahUser) ==
    {i \in DOMAIN rows : \/ rows[i].tahUserId = tahUser.tahUserId
                         \/ rows[i].email = tahUser.email}

\* the prisma calls of upsertShadowUser, any of which may throw
ShadowSteps == {"find", "update", "create", "orgFind", "orgUpsert"}

\* upsertShadowUser(tahUser): the id it returns and the rows it leaves.
\* `existing` is the row findFirst returned (Null when none), `fail` the
\* prisma call that throws ("none" when all succeed), `threw` whether the
\* catch block was reached.
upsertShadowUser(cfg, rows, tahUser, existing, fail) ==
    LET fallback == tahUser.tahUserId
        newId == NewUserId(rows)
        created == (newId :> [tahUserId |-> tahUser.tahUserId,
                              email |-> tahUser.email,
                              roles |-> <<"USER">>, orgs |-> {}]) @@ rows
    IN  IF ~cfg.createShadowUser
        THEN [id |-> tahUser.userId, rows |-> rows, threw |-> FALSE]
        ELSE IF fail = "find"
        THEN [id |-> fallback, rows |-> rows, threw |-> TRUE]
        ELSE IF existing # Null
        THEN IF ~cfg.syncOnLogin
             THEN [id |-> existing, rows |-> rows, threw |-> FALSE]
             ELSE IF fail = "update"
             THEN [id |-> fallback, rows |-> rows, threw |-> TRUE]
             ELSE [id |-> existing,
                   rows |-> [rows EXCEPT ![existing].tahUserId =
                                            tahUser.tahUserId],
                   threw |-> FALSE]
        ELSE IF fail = "create"
        THEN [id |-> fallback, rows |-> rows, threw |-> TRUE]
        ELSE IF tahUser.orgId = Null
        THEN [id |-> newId, rows |-> created, threw |-> FALSE]
        ELSE IF fail = "orgFind"
        THEN [id |-> fallback, rows |-> created, threw |-> TRUE]
        ELSE IF tahUser.orgId \notin Orgs
        THEN [id |-> newId, rows |-> created, threw |-> FALSE]
        ELSE IF fail = "orgUpsert"
        THEN [id |-> fallback, rows |-> created, threw |-> TRUE]
        ELSE [id |-> newId,
              rows |-> [created EXCEPT ![newId].orgs = {tahUser.orgId}],
              threw |-> FALSE]

(***************************************************************************)
(* Guards and tenant context                                               *)
(***************************************************************************)
\* requireScope(scope): TRUE when the guard calls next(), else it sends 403;
\* the first definition is the variant that lets every API key through
requireScopeAnyKey(out, scope) ==
    \/ out.authMethod = "jwt"
    \/ out.apiKey.id # 0

requireScope(out, scope) ==
    \/ out.authMethod = "jwt"
    \/ out.apiKey.id # 0 /\ scope \in out.apiKey.scopes

\* JS values handed to authorize: a role string, or an array of role strings
Str(r) == <<"string", r>>

Arr(rs) == <<"array">> \o rs

\* authorize(...allowedRoles): the status sent, 200 when next() is called
authorize(out, allowedRoles) ==
    IF out.user = NoUser THEN 401
    ELSE IF \E i \in DOMAIN allowedRoles :
               \E j \in DOMAIN out.user.roles :
                   allowedRoles[i] = Str(out.user.roles[j])
         THEN 200
         ELSE 403

\* s.split(sep): the pieces of a text between the separators
RECURSIVE Split(_, _)
Split(s, sep) ==
    IF \A i \in DOMAIN s : s[i] # sep THEN <<s>>
    ELSE LET k == CHOOSE i \in DOMAIN s :
                      s[i] = sep /\ \A j \in 1..(i - 1) : s[j] # sep
         IN  <<SubSeq(s, 1, k - 1)>> \o Split(SubSeq(s, k + 1, Len(s)), sep)

\* the i-th piece of a destructured split, NoText when undefined
Piece(parts, i) == IF i <= Len(parts) THEN parts[i] ELSE NoText

\* `${featureId}:${action}`
FeatureAction(featureId, action) == featureId \o <<":", action>>

\* checkPermission(featureId, action): the status sent, 200 when next() is
\* called
checkPermission(out, featureId, action) ==
    LET category == Piece(Split(featureId, "."), 1)
        hasPermission ==
            \E p \in out.user.permissions :
                \/ p = <<"*">>
                \/ p = Perm("*", "*")
                \/ p = FeatureAction(featureId, "*")
                \/ p = FeatureAction(featureId, action)
                \/ p = FeatureAction(category, "*")
                \/ p = FeatureAction(category, action)
    IN  IF out.user = NoUser THEN 401
        ELSE IF out.user.authSource = "tah" /\ ~hasPermission THEN 403
        ELSE 200

\* checkTahPermission(featureId, action) of the TAH middleware
checkTahPermission(out, featureId, action) ==
    LET category == Piece(Split(featureId, "."), 1)
        hasPermission ==
            \E p \in out.user.permissions :
                LET resource == Piece(Split(p, ":"), 1)
                    allowedAction == Piece(Split(p, ":"), 2)
                IN  \/ resource = <<"*">> \/ allowedAction = <<"*">>
                    \/ p = FeatureAction(featureId, action)
                    \/ p = FeatureAction(featureId, "*")
                    \/ /\ resource = category
                       /\ allowedAction = <<"*">> \/ allowedAction = <<action>>
    IN  IF out.user.authSource # "tah" THEN 200
        ELSE IF ~hasPermission THEN 403
        ELSE 200

\* req.params[name], Null when the route has no such parameter
ParamOf(params, name) == IF name \in DOMAIN params THEN params[name] ELSE Null

\* checkWorkflowAccess(paramName): TRUE when the guard calls next(), else it
\* sends 403; the first definition is the variant without the rule for an
\* empty allow-list
checkWorkflowAccessListOnly(out, params, paramName) ==
    LET workflowId == IF ParamOf(params, paramName) # Null
                      THEN ParamOf(params, paramName)
                      ELSE ParamOf(params, "id")
    IN  \/ out.authMethod = "jwt"
        \/ out.apiKey.id = 0
        \/ workflowId \in out.apiKey.workflowIds

checkWorkflowAccess(out, params, paramName) ==
    LET workflowId == IF ParamOf(params, paramName) # Null
                      THEN ParamOf(params, paramName)
                      ELSE ParamOf(params, "id")
    IN  \/ out.authMethod = "jwt"
        \/ out.apiKey.id = 0
        \/ out.apiKey.workflowIds = {}
        \/ workflowId \in out.apiKey.workflowIds

getTenantContext(out) ==
    [userId |-> out.user.id,
     orgId |-> IF out.org # Null THEN out.org ELSE out.user.orgId,
     authSource |-> IF out.user.authSource # Null
                    THEN out.user.authSource ELSE "local"]

(***************************************************************************)
(* Resource service                                                        *)
(***************************************************************************)
\* ids of the rows listResources returns
listResources(rows, orgId) ==
    {id \in DOMAIN rows : orgId = Null \/ rows[id].orgId = orgId}

\* ids of the rows getResource returns (at most one)
getResource(rows, id, orgId) ==
    {i \in DOMAIN rows : i = id /\ (orgId = Null \/ rows[i].orgId = orgId)}

\* updateResource / deleteResource: TRUE when the ownership check passes
MayMutate(rows, id, context) ==
    /\ id \in DOMAIN rows
    /\ ~(/\ context.orgId # Null
         /\ rows[id].orgId # Null
         /\ rows[id].orgId # context.orgId)

(***************************************************************************)
(* State                                                                   *)
(***************************************************************************)
VARIABLES
    cfg,           \* process configuration (AUTH_MODE, TAH_ENABLED, bypass)
    now,           \* the clock, in milliseconds
    apiKeys,       \* prisma.apiKey: id -> row
    resources,     \* prisma.orchestratorResource: id -> row
    issued,        \* raw keys returned by POST /api-keys
    pendingUsage,  \* updateApiKeyUsage calls in flight
    last,          \* the last request served and what came of it
    recorded,      \* per key: usage updates written since its window reset
    svc,           \* the last guard or resource-service call of an admitted
                   \* request
    shadowUsers,   \* prisma.usuario rows written by upsertShadowUser
    jwksCache,     \* the cached JWKS of the TAH middleware
    jwksCacheExpiry, \* the instant the cached JWKS expires
    tahCall,       \* the last getSigningKey / upsertShadowUser call
    resp,          \* the last response of an API key route
    bypassWarningLogged, \* auth.middleware.js: the bypass warning was logged
    warnings,      \* number of bypass warnings written to the log
    validating,    \* validateApiKey calls in flight
    jwksFetches,   \* fetchJwks calls in flight
    admissions     \* the validateApiKey calls decided so far, in order

tahVars == <<shadowUsers, jwksCache, jwksCacheExpiry, tahCall>>

\* module state of auth.middleware.js, and the calls in flight
procVars ==
    <<bypassWarningLogged, warnings, validating, jwksFetches, admissions>>

vars == <<cfg, now, apiKeys, resources, issued, pendingUsage, last,
          recorded, svc, tahVars, resp, procVars>>

\* let jwksCache = null
NoJwks == [cached |-> FALSE, keys |-> << >>]

NoTahCall == [op |-> "none"]

NoResponse ==
    [route |-> "none", status |-> 0, id |-> 0, data |-> {}, key |-> NoText,
     written |-> {}, before |-> NoRow, after |-> NoRow]

\* let bypassWarningLogged = false; no call in flight
InitProc ==
    /\ bypassWarningLogged = FALSE
    /\ warnings = 0
    /\ validating = << >>
    /\ jwksFetches = << >>
    /\ admissions = << >>

\* the TAH middleware and the key routes at process start
InitRest ==
    /\ shadowUsers = << >>
    /\ jwksCache = NoJwks
    /\ jwksCacheExpiry = 0
    /\ tahCall = NoTahCall
    /\ resp = NoResponse
    /\ InitProc

\* the row prisma.apiKey.create writes (counters at their defaults)
NewKeyRow(id, rawKey, userId, orgId, rateLimit, scopes, workflowIds, isActive, expiresAt) ==
    [id |-> id, keyHash |-> hashApiKey(rawKey),
     keyPrefix |-> getKeyPrefix(rawKey), userId |-> userId, orgId |-> orgId,
     scopes |-> scopes, workflowIds |-> workflowIds, rateLimit |-> rateLimit,
     rateLimitUsed |-> 0, rateLimitReset |-> NoDate, usageCount |-> 0,
     isActive |-> isActive, expiresAt |-> expiresAt]

\* keys of the shared database that carry the prefixes extractApiKey accepts
OrcKey == <<"o", "r", "c", "_", "a">>
SkKey == <<"s", "k", "_", "a">>
AkKey == <<"a", "k", "_", "a">>
UnknownOrcKey == <<"o", "r", "c", "_", "f">>
UnknownKvrKey == <<"k", "v", "r", "_", "0">>

SeededKeys ==
    (1 :> NewKeyRow(1, OrcKey, "u1", "o1", 2, {"resources:read"}, {"r1"},
                    TRUE, NoDate))
    @@ (2 :> NewKeyRow(2, SkKey, "u2", Null, 1, Scopes, {}, TRUE, NoDate))
    @@ (3 :> NewKeyRow(3, AkKey, "ghost", "o2", 2, {"resources:read"}, {},
                       TRUE, NoDate))

SeededResources ==
    [r \in {"r1", "r2", "r3"} |->
        [orgId |-> CASE r = "r1" -> "o1" [] r = "r2" -> "o2" [] OTHER -> Null]]

NoOptions == [scope |-> Null, resourceIdParam |-> Null]

NoHeaders == [xApiKey |-> NoText, authorization |-> NoText, xOrg |-> Null]

NoRequest ==
    [mw |-> "none", headers |-> NoHeaders, options |-> NoOptions,
     paramId |-> "r1", at |-> 0, keyId |-> 0, before |-> NoRow,
     after |-> NoRow, recordedBefore |-> 0, out |-> Pending(<< >>)]

NoCall ==
    [op |-> "none", id |-> "r1", orgId |-> Null, status |-> 0, touched |-> {}]

Configs ==
    {[authMode |-> "dual", tahEnabled |-> TRUE, bypass |-> FALSE,
      nodeEnv |-> "development",
      createShadowUser |-> TRUE, syncOnLogin |-> TRUE, publicKey |-> NoPem],
     [authMode |-> "local", tahEnabled |-> FALSE, bypass |-> TRUE,
      nodeEnv |-> "development",
      createShadowUser |-> TRUE, syncOnLogin |-> TRUE, publicKey |-> NoPem],
     [authMode |-> "dual", tahEnabled |-> TRUE, bypass |-> TRUE,
      nodeEnv |-> "production",
      createShadowUser |-> TRUE, syncOnLogin |-> TRUE, publicKey |-> NoPem],
     [authMode |-> "tah", tahEnabled |-> TRUE, bypass |-> FALSE,
      nodeEnv |-> "development",
      createShadowUser |-> FALSE, syncOnLogin |-> FALSE,
      publicKey |-> Pem("PUBLIC KEY", "static")]}

Init ==
    /\ cfg \in Configs
    /\ now = 0
    /\ apiKeys = SeededKeys
    /\ resources = SeededResources
    /\ issued = {}
    /\ pendingUsage = << >>
    /\ last = NoRequest
    /\ recorded = [id \in DOMAIN SeededKeys |-> 0]
    /\ svc = NoCall
    /\ InitRest

(***************************************************************************)
(* Serving one request through one middleware                              *)
(***************************************************************************)
Handle(mw, req, options) ==
    CASE mw = "route" -> authenticateHybridUnapplied(apiKeys, now, req)
      [] mw = "hybrid" -> HybridHandler(apiKeys, now, options, req)
      [] mw = "apikey" -> ApiKeyOnlyHandler(apiKeys, now, options, req)
      [] mw = "optional" -> optionalAuth(cfg, apiKeys, now, req)
      [] OTHER -> authenticate(cfg, apiKeys, now, req)

RECURSIVE SumUsage(_, _)
SumUsage(store, ids) ==
    IF ids = {} THEN 0
    ELSE LET id == CHOOSE i \in ids : TRUE
         IN  store[id].usageCount + SumUsage(store, ids \ {id})

TotalUsage(store) == SumUsage(store, DOMAIN store)

\* the row a request's key names, 0 when validateApiKey found none
KeyIdOf(out, headers) ==
    LET ids == FindByHash(apiKeys, hashApiKey(extractApiKey(headers)))
    IN  IF out.validation.called /\ ids # {}
        THEN CHOOSE i \in ids : TRUE ELSE 0

\* applyDevBypass, called by `authenticate` when no token was extracted:
\* TRUE when it attaches DEV_USER and calls next()
applyDevBypass(mw, headers) ==
    /\ mw = "authenticate"
    /\ extractToken(headers) = NoText
    /\ cfg.bypass

\* applyDevBypass writes the warning to the log
WarnsOfBypass(mw, headers) ==
    /\ applyDevBypass(mw, headers)
    /\ ~bypassWarningLogged
    /\ cfg.nodeEnv # "production"

Serve(mw, headers, options, paramId) ==
    \E out \in {Handle(mw, [headers |-> headers, paramId |-> paramId],
                       options)} :
    \E id \in {KeyIdOf(out, headers)} :
        /\ out.usage # 0 =>
              /\ Len(pendingUsage) < MaxPending
              /\ TotalUsage(apiKeys) + Len(pendingUsage) < MaxUsage
        /\ apiKeys' = out.store
        /\ last' = [mw |-> mw, headers |-> headers, options |-> options,
                    paramId |-> paramId, at |-> now, keyId |-> id,
                    before |-> IF id # 0 THEN apiKeys[id] ELSE NoRow,
                    after |-> IF id # 0 THEN out.store[id] ELSE NoRow,
                    recordedBefore |-> IF id # 0 THEN recorded[id] ELSE 0,
                    out |-> [out EXCEPT !.store = << >>]]
        /\ pendingUsage' =
              IF out.usage # 0
              THEN Append(pendingUsage,
                          [id |-> out.usage, now0 |-> now, stage |-> "read",
                           resetRead |-> NoDate,
                           afterReset |-> out.validation.didReset])
              ELSE pendingUsage
        /\ recorded' = IF out.validation.didReset
                       THEN [recorded EXCEPT ![id] = 0] ELSE recorded
        /\ svc' = NoCall
        /\ bypassWarningLogged' =
              (bypassWarningLogged \/ WarnsOfBypass(mw, headers))
        /\ warnings' = IF WarnsOfBypass(mw, headers)
                       THEN warnings + 1 ELSE warnings
        /\ UNCHANGED <<cfg, now, resources, issued, tahVars, resp,
                       validating, jwksFetches, admissions>>

(***************************************************************************)
(* updateApiKeyUsage, fired without being awaited                          *)
(***************************************************************************)
RemoveAt(q, i) == SubSeq(q, 1, i - 1) \o SubSeq(q, i + 1, Len(q))

\* the inner findUnique: rateLimitReset, or one hour from the call's start
UsageRead(i) ==
    /\ i \in DOMAIN pendingUsage
    /\ pendingUsage[i].stage = "read"
    /\ pendingUsage[i].id \in DOMAIN apiKeys
    /\ LET row == apiKeys[pendingUsage[i].id]
       IN  pendingUsage' =
              [pendingUsage EXCEPT
                 ![i].stage = "write",
                 ![i].resetRead = IF row.rateLimitReset # NoDate
                                  THEN row.rateLimitReset
                                  ELSE pendingUsage[i].now0 + HourMs]
    /\ UNCHANGED <<cfg, now, apiKeys, resources, issued, last,
                   recorded, svc, tahVars, procVars, resp>>

\* the row updateApiKeyUsage writes
UsageWritten(row, entry) ==
    [row EXCEPT !.usageCount = @ + 1, !.rateLimitUsed = @ + 1,
                !.rateLimitReset = entry.resetRead]

UsageWrite(i) ==
    /\ i \in DOMAIN pendingUsage
    /\ pendingUsage[i].stage = "write"
    /\ pendingUsage[i].id \in DOMAIN apiKeys
    /\ LET id == pendingUsage[i].id
       IN  /\ apiKeys' = [apiKeys EXCEPT
                            ![id] = UsageWritten(@, pendingUsage[i])]
           /\ recorded' = [recorded EXCEPT ![id] = @ + 1]
    /\ pendingUsage' = RemoveAt(pendingUsage, i)
    /\ UNCHANGED <<cfg, now, resources, issued, last, svc, tahVars, procVars, resp>>

Tick ==
    /\ now < MaxTicks * TickMs
    /\ now' = now + TickMs
    /\ UNCHANGED <<cfg, apiKeys, resources, issued, pendingUsage, last,
                   recorded, svc, tahVars, procVars, resp>>

(***************************************************************************)
(* Requests                                                                *)
(***************************************************************************)
MalformedToken == <<"x">>

BasicAuth == <<"B", "a", "s", "i", "c", " ", "x">>

InHeader(key) == [xApiKey |-> key, authorization |-> NoText]

AsBearer(token) == [xApiKey |-> NoText, authorization |-> Bearer(token)]

NoCredential == [xApiKey |-> NoText, authorization |-> NoText]

WithOrg(cred, xOrg) ==
    [xApiKey |-> cred.xApiKey, authorization |-> cred.authorization,
     xOrg |-> xOrg]

\* credentials that name a principal with an organization context
PrincipalCreds ==
    {AsBearer(Jwt("1")), AsBearer(Jwt("2")), AsBearer(Jwt("3")),
     AsBearer(Jwt("7")), InHeader(OrcKey), InHeader(SkKey)}

\* missing, malformed, foreign or unknown credentials
OtherCreds ==
    {NoCredential, [xApiKey |-> NoText, authorization |-> BasicAuth],
     AsBearer(Jwt("4")), AsBearer(Jwt("5")), AsBearer(Jwt("6")),
     AsBearer(Jwt("8")), AsBearer(MalformedToken),
     InHeader(UnknownOrcKey), InHeader(AkKey), AsBearer(SkKey)}

GatewayCreds == PrincipalCreds \cup OtherCreds

\* a resource or project route, mounted as `authenticateHybrid,`
RouteRequest ==
    \E cred \in GatewayCreds :
        Serve("route", WithOrg(cred, Null), NoOptions, "r1")

\* the middleware authenticateHybrid(options) returns
HybridRequest ==
    \E cred \in GatewayCreds, xOrg \in Orgs \cup {Null},
       scope \in {Null, "resources:write"} :
        /\ cred \in OtherCreds => xOrg = Null /\ scope = Null
        /\ Serve("hybrid", WithOrg(cred, xOrg),
                 [scope |-> scope, resourceIdParam |-> Null], "r1")

ApiKeyOnlyRequest ==
    \E cred \in GatewayCreds, scope \in {Null, "resources:write"} :
        /\ cred \notin {InHeader(OrcKey), InHeader(SkKey)} => scope = Null
        /\ Serve("apikey", WithOrg(cred, Null),
                 [scope |-> scope, resourceIdParam |-> Null], "r1")

\* access tokens of generateAccessTokenWithOrg: they carry a `roles` array
RolesCreds == {AsBearer(Jwt("E")), AsBearer(Jwt("F"))}

AuthenticateRequest ==
    \E cred \in GatewayCreds \cup RolesCreds :
        Serve("authenticate", WithOrg(cred, Null), NoOptions, "r1")

Next ==
    \/ RouteRequest
    \/ HybridRequest
    \/ ApiKeyOnlyRequest
    \/ AuthenticateRequest
    \/ \E i \in 1..MaxPending : UsageRead(i)
    \/ \E i \in 1..MaxPending : UsageWrite(i)

Spec == Init /\ [][Next]_vars

(***************************************************************************)
(* The life of one API key: validation, usage recording, the clock         *)
(***************************************************************************)
InitKeys ==
    /\ cfg = [authMode |-> "dual", tahEnabled |-> TRUE, bypass |-> FALSE,
      nodeEnv |-> "development",
              createShadowUser |-> TRUE, syncOnLogin |-> TRUE,
              publicKey |-> NoPem]
    /\ now = 0
    /\ \E isActive \in BOOLEAN, expiresAt \in {NoDate, TickMs},
          rateLimit \in {1, 2} :
        apiKeys = (1 :> NewKeyRow(1, OrcKey, "u1", "o1", rateLimit,
                                  {"resources:read"}, {"r1"}, isActive,
                                  expiresAt))
    /\ resources = SeededResources
    /\ issued = {}
    /\ pendingUsage = << >>
    /\ last = NoRequest
    /\ recorded = (1 :> 0)
    /\ svc = NoCall
    /\ InitRest

KeyRequest ==
    \E xOrg \in {Null, "o2"}, scope \in Scopes, paramId \in ResourceIds :
        Serve("hybrid", WithOrg(InHeader(OrcKey), xOrg),
              [scope |-> scope, resourceIdParam |-> "id"], paramId)

UnknownKeyRequest ==
    Serve("hybrid", WithOrg(InHeader(UnknownOrcKey), Null),
          [scope |-> "resources:read", resourceIdParam |-> "id"], "r1")

PlainKeyRequest ==
    Serve("apikey", WithOrg(AsBearer(OrcKey), Null), NoOptions, "r1")

NextKeys ==
    \/ KeyRequest
    \/ UnknownKeyRequest
    \/ PlainKeyRequest
    \/ Tick
    \/ \E i \in 1..MaxPending : UsageRead(i)
    \/ \E i \in 1..MaxPending : UsageWrite(i)

SpecKeys == InitKeys /\ [][NextKeys]_vars

(***************************************************************************)
(* Properties of the validator and the usage updater                       *)
(***************************************************************************)
\* the request in `last` reached validateApiKey and its key has a row
KeyFound == last.out.validation.called /\ last.keyId # 0

\* the organization validateApiKey was given by the middleware
RequestedOrg == IF last.mw = "hybrid" THEN last.headers.xOrg ELSE Null

\* the resource id validateApiKey was given by the middleware
RequestedResource ==
    IF last.options.resourceIdParam # Null THEN last.paramId ELSE Null

KeyExpired ==
    last.before.expiresAt # NoDate /\ last.before.expiresAt < last.at

OrgMismatch ==
    /\ RequestedOrg # Null
    /\ last.before.orgId # Null
    /\ last.before.orgId # RequestedOrg

\* the key passes the checks that come before the rate limit
PassesEarlyChecks ==
    KeyFound /\ last.before.isActive /\ ~KeyExpired /\ ~OrgMismatch

\* the stored window-reset instant lies before the time of the request
WindowPast ==
    last.before.rateLimitReset # NoDate /\ last.before.rateLimitReset < last.at

\* C1: once the usage recorded for a key in its current window has reached
\* the key's rate limit L, every further validation of that (active,
\* unexpired, organization-matching) key made no later than the window-reset
\* instant fails with 'Rate limit exceeded' and rateLimited = true, whatever
\* scope or resource id the request asks for.
C1_RateLimitEnforced ==
    (/\ PassesEarlyChecks
     /\ last.before.rateLimitReset # NoDate
     /\ last.at <= last.before.rateLimitReset
     /\ last.recordedBefore >= last.before.rateLimit)
    => /\ ~last.out.validation.valid
       /\ last.out.validation.error = ErrRate
       /\ last.out.validation.rateLimited
       /\ last.out.nextCalled = 0

\* a limited key asked for a scope it lacks and a resource outside its
\* allow-list, strictly inside its window, is still refused for the limit
C1_Witness ==
    /\ PassesEarlyChecks
    /\ last.before.rateLimitReset # NoDate
    /\ last.at < last.before.rateLimitReset
    /\ last.at > 0
    /\ last.recordedBefore >= last.before.rateLimit
    /\ last.before.rateLimit = 2
    /\ last.options.scope = "resources:write"
    /\ RequestedResource = "r2"
    /\ last.out.validation.error = ErrRate

\* C2, the validation: when the stored window-reset instant is in the past,
\* the stored counter is 0 and the instant is one hour after the request
\* once validateApiKey returns, the limit check does not refuse the request,
\* the call succeeds when scope and workflow allow it, and the record it
\* returns carries the counter 0.
C2_ResetOnValidation ==
    (PassesEarlyChecks /\ WindowPast)
    => /\ last.out.validation.didReset
       /\ last.after.rateLimitUsed = 0
       /\ last.after.rateLimitReset = last.at + HourMs
       /\ last.out.validation.error # ErrRate
       /\ ~last.out.validation.rateLimited
       /\ (/\ ~ScopeMissing(last.before, last.options.scope)
           /\ ~WorkflowDenied(last.before, RequestedResource))
          => /\ last.out.validation.valid
             /\ last.out.validation.apiKey.rateLimitUsed = 0
             /\ last.out.nextCalled = 1

\* C2, the recording: when the usage of a request that reset the window is
\* written and no other usage was recorded since that reset, the stored
\* counter becomes 1.
C2_CountsFromZero ==
    \A i \in 1..Len(pendingUsage) :
        (/\ UsageWrite(i)
         /\ pendingUsage[i].afterReset
         /\ recorded[pendingUsage[i].id] = 0)
        => apiKeys'[pendingUsage[i].id].rateLimitUsed = 1

\* C2: a validation that finds the window-reset instant in the past resets
\* the stored counter to 0 and advances the instant by one hour before the
\* limit is checked, so it succeeds although the old window was exhausted;
\* the usage recorded for that request brings the counter to 1.
C2_WindowReset == [](C2_ResetOnValidation) /\ [][C2_CountsFromZero]_vars

\* an exhausted window was reset by an admitted request whose usage has
\* been recorded since
C2_Witness ==
    /\ PassesEarlyChecks
    /\ WindowPast
    /\ last.before.rateLimitUsed >= last.before.rateLimit
    /\ last.out.validation.valid
    /\ pendingUsage = << >>
    /\ recorded[last.keyId] = 1
    /\ apiKeys[last.keyId].rateLimitUsed = 1
    /\ apiKeys[last.keyId].rateLimitReset = last.at + HourMs

\* the counter the limit check looks at: 0 when the window is reset first
EffectiveUsed == IF WindowPast THEN 0 ELSE last.before.rateLimitUsed

\* the checks of validateApiKey in their order: <<violated, reason>>
ChecksInOrder ==
    <<
      <<last.keyId = 0, ErrInvalid>>,
      <<last.keyId # 0 /\ ~last.before.isActive, ErrInactive>>,
      <<last.keyId # 0 /\ KeyExpired, ErrExpired>>,
      <<last.keyId # 0 /\ OrgMismatch, ErrOrg>>,
      <<last.keyId # 0 /\ EffectiveUsed >= last.before.rateLimit, ErrRate>>,
      <<last.keyId # 0 /\ last.options.scope # Null
           /\ last.options.scope \notin last.before.scopes, ErrScope>>,
      <<last.keyId # 0 /\ RequestedResource # Null
           /\ last.before.workflowIds # {}
           /\ RequestedResource \notin last.before.workflowIds, ErrWorkflow>>
    >>

Violated == {i \in DOMAIN ChecksInOrder : ChecksInOrder[i][1]}

FirstViolated == CHOOSE i \in Violated : \A j \in Violated : i <= j

\* C7: validateApiKey reports the reason of the earliest violated check in
\* the order unknown hash, inactive, expired, organization mismatch, rate
\* limit, missing scope, workflow not allowed; it succeeds, returning the
\* key's record, exactly when no check is violated.
C7_FirstFailureWins ==
    last.out.validation.called
    => /\ last.out.validation.valid <=> Violated = {}
       /\ Violated # {}
          => /\ last.out.validation.error = ChecksInOrder[FirstViolated][2]
             /\ last.out.validation.apiKey = NoRow
       /\ Violated = {}
          => /\ last.out.validation.error = ""
             /\ last.out.validation.apiKey.id = last.keyId

\* an exhausted key asked for a scope it lacks and a resource it may not
\* touch: three checks are violated and the rate limit is the one reported
C7_Witness ==
    /\ last.out.validation.called
    /\ Violated = {5, 6, 7}
    /\ last.out.validation.error = ErrRate

\* C9: a validation that fails with rateLimited = true is answered 429 with
\* a retry-after hint equal to the seconds left until the key's window-reset
\* instant.
C9_RetryAfterIsTimeLeft ==
    last.out.validation.rateLimited
    => /\ last.out.status = 429
       /\ last.out.retryAfter =
             (last.before.rateLimitReset - last.at) \div 1000

\* a rate-limited request half an hour before the window-reset instant
C9_Witness ==
    /\ last.out.validation.rateLimited
    /\ last.out.status = 429
    /\ last.before.rateLimitReset - last.at > 0
    /\ last.before.rateLimitReset - last.at < HourMs
    /\ last.out.retryAfter = RetryAfterSecs

(***************************************************************************)
(* Key issuance: POST /api-keys, then presenting the key                   *)
(***************************************************************************)
NextKeyId == Cardinality(DOMAIN apiKeys) + 1

\* the handler of POST /api-keys, behind `authenticate`
IssueKey ==
    /\ last.mw = "authenticate"
    /\ last.out.nextCalled = 1
    /\ Cardinality(issued) < MaxIssued
    /\ \E randomBytes \in RandomHex, rateLimit \in {1, 2} :
        LET context == getTenantContext(last.out)
            rawKey == generateApiKey(randomBytes)
        IN  /\ FindByHash(apiKeys, hashApiKey(rawKey)) = {}
            /\ apiKeys' = apiKeys @@
                  (NextKeyId :>
                      NewKeyRow(NextKeyId, rawKey, context.userId,
                                context.orgId, rateLimit,
                                {"resources:read"}, {}, TRUE, NoDate))
            /\ recorded' = recorded @@ (NextKeyId :> 0)
            /\ issued' = issued \cup {rawKey}
            /\ resp' = [route |-> "create", status |-> 201, id |-> NextKeyId,
                        data |-> {Select(apiKeys'[NextKeyId], CreateFields)
                                  @@ ("key" :> rawKey)},
                        key |-> rawKey, written |-> KeyColumns,
                        before |-> NoRow, after |-> apiKeys'[NextKeyId]]
    /\ UNCHANGED <<cfg, now, resources, pendingUsage, last, svc, tahVars, procVars>>

\* a key route is reached: `authenticate` called next()
Authenticated == last.mw = "authenticate" /\ last.out.nextCalled = 1

\* the ids a route parameter may carry: those of the rows and one more
KeyIds == 1..NextKeyId

\* findFirst({ where: { id, ...tenantFilter } }): the row, NoRow when none
OwnKey(id) ==
    IF id \in DOMAIN apiKeys
       /\ TenantFilter(getTenantContext(last.out), apiKeys[id])
    THEN apiKeys[id] ELSE NoRow

NotFound(route, id) ==
    [route |-> route, status |-> 404, id |-> id, data |-> {}, key |-> NoText,
     written |-> {}, before |-> NoRow, after |-> NoRow]

Found(route, row, data) ==
    [route |-> route, status |-> 200, id |-> row.id, data |-> data,
     key |-> NoText, written |-> {}, before |-> NoRow, after |-> NoRow]

\* GET /api-keys
ListKeys(includeInactive) ==
    /\ Authenticated
    /\ resp' = [route |-> "list", status |-> 200, id |-> 0,
                data |-> {Select(apiKeys[id], ListFields) :
                            id \in {i \in DOMAIN apiKeys :
                                      /\ TenantFilter(
                                             getTenantContext(last.out),
                                             apiKeys[i])
                                      /\ includeInactive
                                         \/ apiKeys[i].isActive}},
                key |-> NoText, written |-> {}, before |-> NoRow,
                after |-> NoRow]
    /\ UNCHANGED <<cfg, now, apiKeys, resources, issued, pendingUsage, last,
                   recorded, svc, tahVars, procVars>>

\* GET /api-keys/:id
GetKey(id) ==
    /\ Authenticated
    /\ resp' = IF OwnKey(id) = NoRow THEN NotFound("get", id)
               ELSE Found("get", OwnKey(id),
                          {Select(OwnKey(id), GetFields)})
    /\ UNCHANGED <<cfg, now, apiKeys, resources, issued, pendingUsage, last,
                   recorded, svc, tahVars, procVars>>

\* GET /api-keys/:id/stats
KeyStats(id) ==
    /\ Authenticated
    /\ resp' =
          IF OwnKey(id) = NoRow THEN NotFound("stats", id)
          ELSE LET apiKey == OwnKey(id)
                   inWindow == /\ apiKey.rateLimitReset # NoDate
                               /\ apiKey.rateLimitReset > now
               IN  Found("stats", apiKey,
                         {Select(apiKey, StatsFields)
                          @@ ("rateLimitRemaining" :>
                                 IF inWindow
                                 THEN apiKey.rateLimit - apiKey.rateLimitUsed
                                 ELSE apiKey.rateLimit)
                          @@ ("rateLimitResetIn" :>
                                 IF apiKey.rateLimitReset = NoDate THEN NoDate
                                 ELSE IF apiKey.rateLimitReset > now
                                 THEN apiKey.rateLimitReset - now
                                 ELSE 0)})
    /\ UNCHANGED <<cfg, now, apiKeys, resources, issued, pendingUsage, last,
                   recorded, svc, tahVars, procVars>>

\* PATCH /api-keys/:id with a body that sets isActive
UpdateKey(id, isActive) ==
    /\ Authenticated
    /\ IF OwnKey(id) = NoRow
       THEN /\ resp' = NotFound("update", id)
            /\ UNCHANGED apiKeys
       ELSE /\ apiKeys' = [apiKeys EXCEPT ![id].isActive = isActive]
            /\ resp' = [route |-> "update", status |-> 200, id |-> id,
                        data |-> {Select(apiKeys'[id], UpdateFields)},
                        key |-> NoText, written |-> {"isActive"},
                        before |-> NoRow, after |-> NoRow]
    /\ UNCHANGED <<cfg, now, resources, issued, pendingUsage, last,
                   recorded, svc, tahVars, procVars>>

\* POST /api-keys/:id/regenerate
RegenerateKey(id, randomBytes) ==
    LET rawKey == generateApiKey(randomBytes)
    IN  /\ Authenticated
        /\ rawKey \notin issued
        /\ FindByHash(apiKeys, hashApiKey(rawKey)) = {}
        /\ IF OwnKey(id) = NoRow
           THEN /\ resp' = NotFound("regenerate", id)
                /\ UNCHANGED <<apiKeys, issued, recorded>>
           ELSE /\ apiKeys' = [apiKeys EXCEPT
                                 ![id].keyHash = hashApiKey(rawKey),
                                 ![id].keyPrefix = getKeyPrefix(rawKey),
                                 ![id].usageCount = 0,
                                 ![id].rateLimitUsed = 0]
                /\ issued' = issued \cup {rawKey}
                /\ recorded' = [recorded EXCEPT ![id] = 0]
                /\ resp' = [route |-> "regenerate", status |-> 200,
                            id |-> id,
                            data |-> {Select(apiKeys'[id], RegenerateFields)
                                      @@ ("key" :> rawKey)},
                            key |-> rawKey, written |-> RegenerateData,
                            before |-> apiKeys[id], after |-> apiKeys'[id]]
        /\ UNCHANGED <<cfg, now, resources, pendingUsage, last, svc,
                       tahVars, procVars>>

KeyRouteCall ==
    \/ \E includeInactive \in BOOLEAN : ListKeys(includeInactive)
    \/ \E id \in KeyIds : GetKey(id)
    \/ \E id \in KeyIds : KeyStats(id)
    \/ \E id \in KeyIds, isActive \in BOOLEAN : UpdateKey(id, isActive)
    \/ \E id \in KeyIds, randomBytes \in RandomHex :
          RegenerateKey(id, randomBytes)

IssuerRequest ==
    \E cred \in {AsBearer(Jwt("1")), AsBearer(Jwt("3")), NoCredential} :
        Serve("authenticate", WithOrg(cred, Null), NoOptions, "r1")

PresentKey ==
    \E key \in issued \cup {UnknownKvrKey, OrcKey},
       mw \in {"hybrid", "apikey"} :
        \E cred \in {InHeader(key), AsBearer(key)} :
            Serve(mw, WithOrg(cred, Null), NoOptions, "r1")

NextIssue ==
    \/ IssuerRequest
    \/ IssueKey
    \/ PresentKey
    \/ \E i \in 1..MaxPending : UsageRead(i)
    \/ \E i \in 1..MaxPending : UsageWrite(i)

SpecIssue == Init /\ [][NextIssue]_vars

\* a key of the store or a returned key, presented in X-API-Key
PresentRouteKey ==
    \E key \in issued \cup {OrcKey} :
        Serve("hybrid", WithOrg(InHeader(key), Null), NoOptions, "r1")

\* the caller of the key routes signs in, or fails to
RoutesRequest ==
    \E cred \in {AsBearer(Jwt("1")), NoCredential} :
        Serve("authenticate", WithOrg(cred, Null), NoOptions, "r1")

NextRoutes ==
    \/ RoutesRequest
    \/ IssueKey
    \/ KeyRouteCall
    \/ PresentRouteKey
    \/ \E i \in 1..MaxPending : UsageRead(i)
    \/ \E i \in 1..MaxPending : UsageWrite(i)

\* AUTH_MODE=dual with TAH enabled, the seeded store
InitRoutes ==
    /\ Init
    /\ cfg.authMode = "dual"
    /\ ~cfg.bypass

SpecRoutes == InitRoutes /\ [][NextRoutes]_vars

(***************************************************************************)
(* Resource routes behind the hybrid middleware and the scope guard        *)
(***************************************************************************)
RouteScope(op) ==
    IF op \in {"list", "get"} THEN "resources:read" ELSE "resources:write"

\* organizations of the rows the handler reads or mutates
Touched(op, id, context) ==
    CASE op = "list" ->
           {resources[i].orgId : i \in listResources(resources, context.orgId)}
      [] op = "get" ->
           {resources[i].orgId :
               i \in getResource(resources, id, context.orgId)}
      [] OTHER ->
           IF MayMutate(resources, id, context)
           THEN {resources[id].orgId} ELSE {}

\* requireScope(scope) followed by the route handler
RouteCall(op, id) ==
    /\ last.mw = "hybrid"
    /\ last.out.nextCalled = 1
    /\ svc = NoCall
    /\ LET context == getTenantContext(last.out)
           admitted == requireScope(last.out, RouteScope(op))
       IN  /\ svc' = [op |-> op, id |-> id, orgId |-> context.orgId,
                      status |-> IF ~admitted THEN 403
                                 ELSE IF op = "list" THEN 200
                                 ELSE IF Touched(op, id, context) = {}
                                 THEN 404 ELSE 200,
                      touched |-> IF admitted
                                  THEN Touched(op, id, context) ELSE {}]
           /\ resources' =
                 IF admitted /\ op = "delete"
                    /\ MayMutate(resources, id, context)
                 THEN [i \in DOMAIN resources \ {id} |-> resources[i]]
                 ELSE resources
    /\ UNCHANGED <<cfg, now, apiKeys, issued, pendingUsage, last,
                   recorded, tahVars, procVars, resp>>

\* principals with a primary organization, with none, and keys of both kinds
TenantCreds ==
    {AsBearer(Jwt("1")), AsBearer(Jwt("3")), InHeader(OrcKey),
     InHeader(SkKey)}

TenantRequest ==
    \E cred \in TenantCreds, xOrg \in {Null, "o2"},
       scope \in {Null, "resources:write"} :
        /\ cred.xApiKey = NoText => scope = Null
        /\ Serve("hybrid", WithOrg(cred, xOrg),
                 [scope |-> scope, resourceIdParam |-> Null], "r1")

ResourceCall ==
    \E op \in {"list", "get", "update", "delete"},
       id \in DOMAIN SeededResources :
        RouteCall(op, id)

NextTenant ==
    \/ TenantRequest
    \/ ResourceCall
    \/ \E i \in 1..MaxPending : UsageRead(i)
    \/ \E i \in 1..MaxPending : UsageWrite(i)

SpecTenant == Init /\ [][NextTenant]_vars

(***************************************************************************)
(* Guards mounted behind the middlewares                                   *)
(***************************************************************************)
\* a request with a route parameter `id`, through authenticateHybrid(options)
GuardedKeyRequest ==
    \E cred \in {InHeader(OrcKey), InHeader(SkKey), AsBearer(Jwt("1"))},
       resourceIdParam \in {Null, "id"}, paramId \in ResourceIds :
        Serve("hybrid", WithOrg(cred, Null),
              [scope |-> Null, resourceIdParam |-> resourceIdParam], paramId)

\* checkWorkflowAccess(paramName) behind the hybrid middleware
WorkflowGuardCall ==
    /\ last.mw = "hybrid"
    /\ last.out.nextCalled = 1
    /\ svc = NoCall
    /\ \E paramName \in {"workflowId", "id"} :
          svc' = [op |-> "checkWorkflowAccess", id |-> last.paramId,
                  orgId |-> getTenantContext(last.out).orgId,
                  status |-> IF checkWorkflowAccess(last.out,
                                                    "id" :> last.paramId,
                                                    paramName)
                             THEN 200 ELSE 403,
                  touched |-> {}]
    /\ UNCHANGED <<cfg, now, apiKeys, resources, issued, pendingUsage, last,
                   recorded, tahVars, procVars, resp>>

\* a request through authenticate or optionalAuth
GuardedJwtRequest ==
    \E cred \in {AsBearer(Jwt("1")), AsBearer(Jwt("3")), AsBearer(Jwt("7")),
                 AsBearer(Jwt("5")), AsBearer(Jwt("9")), AsBearer(Jwt("A")),
                 AsBearer(Jwt("B")), AsBearer(Jwt("C")), AsBearer(Jwt("D")),
                 NoCredential},
       mw \in {"authenticate", "optional"} :
        Serve(mw, WithOrg(cred, Null), NoOptions, "r1")

\* the arguments of authorize(['ADMIN', 'OWNER']), as the approve and
\* reject routes call it, and of authorize('ADMIN', 'OWNER')
RoleGuards ==
    [approve |-> <<Arr(<<"ADMIN", "OWNER">>)>>,
     spread |-> <<Str("ADMIN"), Str("OWNER")>>]

\* authorize(...) behind authenticate or optionalAuth
RoleGuardCall ==
    /\ last.mw \in {"authenticate", "optional"}
    /\ last.out.nextCalled = 1
    /\ svc = NoCall
    /\ \E form \in DOMAIN RoleGuards :
          svc' = [op |-> "authorize", id |-> form,
                  orgId |-> getTenantContext(last.out).orgId,
                  status |-> authorize(last.out, RoleGuards[form]),
                  touched |-> {}]
    /\ UNCHANGED <<cfg, now, apiKeys, resources, issued, pendingUsage, last,
                   recorded, tahVars, procVars, resp>>

\* the features and actions the permission guards are built for
FeatureIds == {<<"wf", ".", "list">>, <<"resources">>, <<"billing">>}

Actions == {"read", "write"}

PermissionGuards == {"checkPermission", "checkTahPermission"}

\* a permission guard mounted behind the unified middleware
PermissionGuardCall ==
    /\ last.mw \in {"authenticate", "optional"}
    /\ last.out.nextCalled = 1
    /\ svc = NoCall
    /\ \E guard \in PermissionGuards, featureId \in FeatureIds,
          action \in Actions :
          svc' = [op |-> guard, id |-> "r1",
                  orgId |-> getTenantContext(last.out).orgId,
                  status |-> IF guard = "checkPermission"
                             THEN checkPermission(last.out, featureId, action)
                             ELSE checkTahPermission(last.out, featureId,
                                                     action),
                  touched |-> {}, featureId |-> featureId,
                  action |-> action]
    /\ UNCHANGED <<cfg, now, apiKeys, resources, issued, pendingUsage, last,
                   recorded, tahVars, procVars, resp>>

NextGuards ==
    \/ GuardedKeyRequest
    \/ WorkflowGuardCall
    \/ GuardedJwtRequest
    \/ RoleGuardCall
    \/ PermissionGuardCall
    \/ \E i \in 1..MaxPending : UsageRead(i)
    \/ \E i \in 1..MaxPending : UsageWrite(i)

SpecGuards == Init /\ [][NextGuards]_vars

(***************************************************************************)
(* The TAH middleware: signing keys and shadow identities                  *)
(***************************************************************************)
\* key sets the JWKS endpoint serves: the second one after a rotation
KeySetA == <<Jwk("k1", "RSA", Null, "nA"), Jwk("k2", "RSA", "certA", Null)>>

KeySetB == <<Jwk("k1", "RSA", Null, "nB"), Jwk("k3", "EC", Null, Null)>>

Responses == {NetworkError, NotOk, Fetched(KeySetA), Fetched(KeySetB)}

Kids == {"k1", "k2", "k3"}

TahConfigs ==
    {[authMode |-> "tah", tahEnabled |-> TRUE, bypass |-> FALSE,
      nodeEnv |-> "development",
      createShadowUser |-> TRUE, syncOnLogin |-> TRUE, publicKey |-> NoPem],
     [authMode |-> "dual", tahEnabled |-> TRUE, bypass |-> FALSE,
      nodeEnv |-> "development",
      createShadowUser |-> TRUE, syncOnLogin |-> FALSE, publicKey |-> NoPem],
     [authMode |-> "tah", tahEnabled |-> TRUE, bypass |-> FALSE,
      nodeEnv |-> "development",
      createShadowUser |-> FALSE, syncOnLogin |-> TRUE,
      publicKey |-> Pem("PUBLIC KEY", "static")]}

\* a local account registered with the email a TAH user also has
LocalAccount ==
    "s1" :> [tahUserId |-> Null, email |-> "cy@tah.io",
             roles |-> <<"ADMIN">>, orgs |-> {"o1"}]

InitTah ==
    /\ cfg \in TahConfigs
    /\ now = 0
    /\ apiKeys = SeededKeys
    /\ resources = SeededResources
    /\ issued = {}
    /\ pendingUsage = << >>
    /\ last = NoRequest
    /\ recorded = [id \in DOMAIN SeededKeys |-> 0]
    /\ svc = NoCall
    /\ shadowUsers \in {<< >>, LocalAccount}
    /\ jwksCache = NoJwks
    /\ jwksCacheExpiry = 0
    /\ tahCall = NoTahCall
    /\ resp = NoResponse
    /\ InitProc

\* validateTahToken resolving the key of a token whose header names `kid`
ResolveKey(kid, response) ==
    \E r \in {getSigningKey(cfg, jwksCache, jwksCacheExpiry, now, kid,
                            response)} :
        /\ jwksCache' = r.cache
        /\ jwksCacheExpiry' = r.expiry
        /\ tahCall' = [op |-> "getSigningKey", kid |-> kid, at |-> now,
                       before |-> jwksCache, expiryBefore |-> jwksCacheExpiry,
                       response |-> response, fetched |-> r.fetched,
                       result |-> r.result]
        /\ UNCHANGED <<cfg, now, apiKeys, resources, issued, pendingUsage,
                       last, recorded, svc, shadowUsers, resp,
                   procVars>>

\* the last call of upsertShadowUser, when nothing came between
NoPrior == [user |-> Null, id |-> Null, threw |-> FALSE]

PriorCall ==
    IF tahCall.op = "upsertShadowUser"
    THEN [user |-> tahCall.user, id |-> tahCall.id, threw |-> tahCall.threw]
    ELSE NoPrior

\* the rows findFirst may return, Null when there is none
Existing(rows, tahUser) ==
    IF FindShadow(rows, tahUser) = {} THEN {Null}
    ELSE FindShadow(rows, tahUser)

\* tahAuthenticate resolving the local id of a verified token's user
UpsertShadow(token, fail) ==
    \E existing \in Existing(shadowUsers, TahUserOf(token)) :
    \E r \in {upsertShadowUser(cfg, shadowUsers, TahUserOf(token), existing,
                               fail)} :
        /\ shadowUsers' = r.rows
        /\ tahCall' = [op |-> "upsertShadowUser",
                       user |-> TahUserOf(token).tahUserId,
                       email |-> TahUserOf(token).email,
                       fail |-> fail, threw |-> r.threw, id |-> r.id,
                       prior |-> PriorCall]
        /\ UNCHANGED <<cfg, now, apiKeys, resources, issued, pendingUsage,
                       last, recorded, svc, jwksCache, jwksCacheExpiry,
                       resp,
                   procVars>>

\* tokens the TAH validator verifies
TahTokens == {t \in DOMAIN JwtTable : TahVerifies(t, 0)}

UpsertAnyShadow ==
    \E token \in TahTokens, fail \in ShadowSteps \cup {"none"} :
        UpsertShadow(token, fail)

ResolveAnyKey == \E kid \in Kids, response \in Responses : ResolveKey(kid, response)

NextTah ==
    \/ ResolveAnyKey
    \/ UpsertAnyShadow
    \/ Tick

SpecTah == InitTah /\ [][NextTah]_vars

(***************************************************************************)
(* Role names handed to mapTahRole                                         *)
(***************************************************************************)
RoleAlphabet == {"d", "e", "v", "D", "x", " "}

\* role names of the examples, and a name the mapping object inherits
NamedRoles ==
    {<<"a", "d", "m", "i", "n">>, <<"A", "d", "m", "i", "n">>,
     <<"A", "D", "M", "I", "N">>, <<" ", "u", "s", "e", "r">>,
     <<"c", "o", "n", "s", "t", "r", "u", "c", "t", "o", "r">>}

RoleInputs ==
    NamedRoles
    \cup UNION {[1..n -> RoleAlphabet] : n \in 0..MaxRoleLen}

\* a token's raw role is at hand, not yet mapped
InitRoles ==
    /\ cfg \in {c \in Configs : c.authMode = "dual"}
    /\ now = 0
    /\ apiKeys = SeededKeys
    /\ resources = SeededResources
    /\ issued = {}
    /\ pendingUsage = << >>
    /\ last = NoRequest
    /\ recorded = [id \in DOMAIN SeededKeys |-> 0]
    /\ svc = NoCall
    /\ shadowUsers = << >>
    /\ jwksCache = NoJwks
    /\ jwksCacheExpiry = 0
    /\ resp = NoResponse
    /\ \E r \in RoleInputs : tahCall = [op |-> "rawRole", input |-> r]
    /\ InitProc

\* validateTahToken mapping one raw role, then the mapped role once more
MapRole(r) ==
    /\ tahCall = [op |-> "rawRole", input |-> r]
    /\ tahCall' = [op |-> "mapTahRole", input |-> r,
                   result |-> mapTahRole(Text(r)),
                   again |-> mapTahRole(mapTahRole(Text(r)))]
    /\ UNCHANGED <<cfg, now, apiKeys, resources, issued, pendingUsage, last,
                   recorded, svc, shadowUsers, jwksCache, jwksCacheExpiry,
                   resp,
                   procVars>>

NextRoles == \E r \in RoleInputs : MapRole(r)

SpecRoles == InitRoles /\ [][NextRoles]_vars

(***************************************************************************)
(* Concurrent requests on one API key                                      *)
(***************************************************************************)
InitRace ==
    /\ cfg = [authMode |-> "dual", tahEnabled |-> TRUE, bypass |-> FALSE,
              nodeEnv |-> "development",
              createShadowUser |-> TRUE, syncOnLogin |-> TRUE,
              publicKey |-> NoPem]
    /\ now = 0
    /\ \E rateLimit \in {1, 2} :
        apiKeys = (1 :>
                     [NewKeyRow(1, OrcKey, "u1", "o1", rateLimit,
                                {"resources:read"}, {}, TRUE, NoDate)
                        EXCEPT !.rateLimitReset = TickMs])
    /\ resources = SeededResources
    /\ issued = {}
    /\ pendingUsage = << >>
    /\ last = NoRequest
    /\ recorded = (1 :> 0)
    /\ svc = NoCall
    /\ InitRest

\* requests between the start of their validation and their usage write
InFlight == Len(validating) + Len(pendingUsage)

\* the outcome of one validateApiKey call: the window it was decided in,
\* whether it passed, whether it had reset the window
Decision(window, valid, didReset) ==
    [window |-> window, admitted |-> valid, didReset |-> didReset]

\* updateApiKeyUsage(validation.apiKey.id, clientIp), not awaited
FireUsage(queue, valid, didReset) ==
    IF valid
    THEN Append(queue, [id |-> 1, now0 |-> now, stage |-> "read",
                        resetRead |-> NoDate, afterReset |-> didReset])
    ELSE queue

\* validateApiKey up to its first await after findUnique: a window in the
\* past leaves the call waiting for its reset update, otherwise the limit
\* is checked at once on the row read
ValidateFind ==
    /\ InFlight < MaxInFlight
    /\ Len(admissions) + Len(validating) < MaxRequests
    /\ LET apiKey == apiKeys[1]
           windowPast == apiKey.rateLimitReset # NoDate
                         /\ apiKey.rateLimitReset < now
           r == CheckLimits(apiKey, apiKeys, Null, Null, FALSE)
       IN  IF windowPast
           THEN /\ validating' =
                      Append(validating, [id |-> 1, now0 |-> now,
                                          apiKey |-> apiKey])
                /\ UNCHANGED <<pendingUsage, admissions>>
           ELSE /\ pendingUsage' = FireUsage(pendingUsage, r.valid, FALSE)
                /\ admissions' =
                      Append(admissions,
                             Decision(apiKey.rateLimitReset, r.valid, FALSE))
                /\ UNCHANGED validating
    /\ UNCHANGED <<cfg, now, apiKeys, resources, issued, last, recorded,
                   svc, tahVars, resp, bypassWarningLogged, warnings,
                   jwksFetches>>

\* the reset update of a waiting validateApiKey call lands; the call then
\* checks the limit on its own record, whose counter it set to 0
ValidateReset(i) ==
    /\ i \in DOMAIN validating
    /\ LET call == validating[i]
           store == ResetWindow(apiKeys, call.id, call.now0)
           r == CheckLimits([call.apiKey EXCEPT !.rateLimitUsed = 0], store,
                            Null, Null, TRUE)
       IN  /\ apiKeys' = store
           /\ pendingUsage' = FireUsage(pendingUsage, r.valid, TRUE)
           /\ admissions' =
                 Append(admissions,
                        Decision(call.now0 + HourMs, r.valid, TRUE))
    /\ validating' = RemoveAt(validating, i)
    /\ recorded' = [recorded EXCEPT ![1] = 0]
    /\ UNCHANGED <<cfg, now, resources, issued, last, svc, tahVars, resp,
                   bypassWarningLogged, warnings, jwksFetches>>

NextRace ==
    \/ ValidateFind
    \/ \E i \in 1..MaxInFlight : ValidateReset(i)
    \/ \E i \in 1..MaxInFlight : UsageRead(i)
    \/ \E i \in 1..MaxInFlight : UsageWrite(i)
    \/ Tick

SpecRace == InitRace /\ [][NextRace]_vars

(***************************************************************************)
(* Concurrent refreshes of the JWKS cache, and key rotation                *)
(***************************************************************************)
\* the key set the identity provider serves after it rotated to kid k4
KeySetRotated ==
    <<Jwk("k2", "RSA", "certA", Null), Jwk("k4", "RSA", Null, "nR")>>

JwksResponses == {NotOk, Fetched(KeySetA), Fetched(KeySetRotated)}

\* no successful fetch has written the cache yet
NoWrite == [keys |-> << >>, expiry |-> 0, any |-> FALSE]

\* the key set and expiry the last successful fetch wrote
LastWritten ==
    IF tahCall.op = "getSigningKey" THEN tahCall.written ELSE NoWrite

InitJwks ==
    /\ cfg \in {c \in TahConfigs : c.authMode = "tah"}
    /\ now = 0
    /\ apiKeys = SeededKeys
    /\ resources = SeededResources
    /\ issued = {}
    /\ pendingUsage = << >>
    /\ last = NoRequest
    /\ recorded = [id \in DOMAIN SeededKeys |-> 0]
    /\ svc = NoCall
    /\ InitRest

\* getSigningKey(kid) up to its first await: it answers from the static key
\* or from the fresh cache, or is left waiting for fetch()
ResolveStart(kid) ==
    /\ IF MustFetch(cfg, jwksCache, jwksCacheExpiry, now)
       THEN /\ Len(jwksFetches) < MaxFetches
            /\ jwksFetches' =
                  Append(jwksFetches,
                         [kid |-> kid, now0 |-> now, before |-> jwksCache,
                          expiryBefore |-> jwksCacheExpiry])
            /\ UNCHANGED tahCall
       ELSE /\ tahCall' =
                  [op |-> "getSigningKey", kid |-> kid, at |-> now,
                   before |-> jwksCache, expiryBefore |-> jwksCacheExpiry,
                   landedOn |-> jwksCache, landedOnExpiry |-> jwksCacheExpiry,
                   response |-> NetworkError, fetched |-> FALSE,
                   result |-> IF cfg.publicKey # NoPem
                              THEN KeyResult(cfg.publicKey)
                              ELSE FindSigningKey(jwksCache.keys, kid),
                   written |-> LastWritten]
            /\ UNCHANGED jwksFetches
    /\ UNCHANGED <<cfg, now, apiKeys, resources, issued, pendingUsage, last,
                   recorded, svc, shadowUsers, jwksCache, jwksCacheExpiry,
                   resp, bypassWarningLogged, warnings, validating,
                   admissions>>

\* the fetch of a waiting getSigningKey call comes back
FetchLand(i, response) ==
    /\ i \in DOMAIN jwksFetches
    /\ LET call == jwksFetches[i]
           jwks == fetchJwksLanded(jwksCache, jwksCacheExpiry, call.now0,
                                   response)
       IN  /\ jwksCache' = jwks.cache
           /\ jwksCacheExpiry' = jwks.expiry
           /\ tahCall' =
                 [op |-> "getSigningKey", kid |-> call.kid,
                  at |-> call.now0, before |-> call.before,
                  expiryBefore |-> call.expiryBefore,
                  landedOn |-> jwksCache, landedOnExpiry |-> jwksCacheExpiry,
                  response |-> response, fetched |-> TRUE,
                  result |-> IF jwks.ok
                             THEN FindSigningKey(jwks.keys, call.kid)
                             ELSE KeyError("JWKS fetch failed"),
                  written |-> IF response.ok
                              THEN [keys |-> response.keys,
                                    expiry |-> call.now0
                                               + JwksCacheTtl * 1000,
                                    any |-> TRUE]
                              ELSE LastWritten]
    /\ jwksFetches' = RemoveAt(jwksFetches, i)
    /\ UNCHANGED <<cfg, now, apiKeys, resources, issued, pendingUsage, last,
                   recorded, svc, shadowUsers, resp, bypassWarningLogged,
                   warnings, validating, admissions>>

NextJwks ==
    \/ \E kid \in {"k1", "k4"} : ResolveStart(kid)
    \/ \E i \in 1..MaxFetches, response \in JwksResponses :
          FetchLand(i, response)
    \/ Tick

SpecJwks == InitJwks /\ [][NextJwks]_vars

(***************************************************************************)
(* The role sources of a TAH token                                         *)
(***************************************************************************)
\* a claim the payload does not carry
Undefined == <<"undefined">>

\* the claims validateTahToken looks at, in the order it looks at them
RoleSources ==
    <<"appRoles", "appRole", "roles", "role", "org_role", "perfil", "perfis",
      "groups", "realmRoles">>

\* JS truthiness of a claim: an array is truthy even when empty, the empty
\* string is not
Truthy(v) == v[1] = "array" \/ (v[1] = "string" /\ v[2] # << >>)

\* Array.isArray(v) ? v : [v]
AsArray(v) == IF v[1] = "array" THEN Tail(v) ELSE <<v[2]>>

\* the branch of the if / else-if chain that takes the claim
Taken(source, v) ==
    IF source = "roles" THEN Truthy(v) /\ v[1] = "array" ELSE Truthy(v)

\* what the taken branch assigns to rawRoles
Assigned(source, v) ==
    IF source \in {"appRole", "role", "org_role"} THEN <<v[2]>>
    ELSE IF source \in {"roles", "realmRoles"} THEN Tail(v)
    ELSE AsArray(v)

RECURSIVE rawRolesFrom(_, _)
rawRolesFrom(payload, i) ==
    IF i > Len(RoleSources) THEN << >>
    ELSE IF Taken(RoleSources[i], payload[RoleSources[i]])
    THEN Assigned(RoleSources[i], payload[RoleSources[i]])
    ELSE rawRolesFrom(payload, i + 1)

\* let rawRoles = []; followed by the chain
rawRolesOf(payload) == rawRolesFrom(payload, 1)

\* rawRoles.length > 0 ? rawRoles.map(r => mapTahRole(r)) : ['USER']
mappedRoles(rawRoles) ==
    IF Len(rawRoles) > 0
    THEN [i \in DOMAIN rawRoles |-> mapTahRole(Text(rawRoles[i]))]
    ELSE <<Text(<<"U", "S", "E", "R">>)>>

\* the role name each source carries when it is not empty
RoleNameOf(source) ==
    CASE source \in {"appRoles", "appRole"} -> <<"a", "d", "m", "i", "n">>
      [] source \in {"roles", "role"} -> <<"d", "e", "v">>
      [] source \in {"org_role", "perfil"} -> <<"m", "e", "m", "b", "e", "r">>
      [] OTHER -> <<"x">>

\* absent, present but empty, or holding one role name
ClaimValues(source) ==
    IF source \in {"appRole", "role", "org_role"}
    THEN {Undefined, Str(<< >>), Str(RoleNameOf(source))}
    ELSE {Undefined, Arr(<< >>), Arr(<<RoleNameOf(source)>>)}

Payloads ==
    [appRoles : ClaimValues("appRoles"), appRole : ClaimValues("appRole"),
     roles : ClaimValues("roles"), role : ClaimValues("role"),
     org_role : ClaimValues("org_role"), perfil : ClaimValues("perfil"),
     perfis : ClaimValues("perfis"), groups : ClaimValues("groups"),
     realmRoles : ClaimValues("realmRoles")]

InitPayload ==
    /\ cfg \in {c \in TahConfigs : c.authMode = "dual"}
    /\ now = 0
    /\ apiKeys = SeededKeys
    /\ resources = SeededResources
    /\ issued = {}
    /\ pendingUsage = << >>
    /\ last = NoRequest
    /\ recorded = [id \in DOMAIN SeededKeys |-> 0]
    /\ svc = NoCall
    /\ shadowUsers = << >>
    /\ jwksCache = NoJwks
    /\ jwksCacheExpiry = 0
    /\ resp = NoResponse
    /\ InitProc
    /\ \E p \in Payloads : tahCall = [op |-> "verified", payload |-> p]

\* validateTahToken from the verified payload to the roles it returns
ExtractRoles ==
    /\ tahCall.op = "verified"
    /\ tahCall' = [op |-> "validateTahToken", payload |-> tahCall.payload,
                   rawRoles |-> rawRolesOf(tahCall.payload),
                   roles |-> mappedRoles(rawRolesOf(tahCall.payload))]
    /\ UNCHANGED <<cfg, now, apiKeys, resources, issued, pendingUsage, last,
                   recorded, svc, shadowUsers, jwksCache, jwksCacheExpiry,
                   resp, procVars>>

NextPayload == ExtractRoles

SpecPayload == InitPayload /\ [][NextPayload]_vars

(***************************************************************************)
(* POST /auth/login                                                        *)
(***************************************************************************)
\* bcrypt.hash(password): what the passwordHash column holds
Hash(password) == <<"$2a$10$", password>>

\* a row without a passwordHash, as upsertShadowUser creates it
NoHash == << >>

\* email.toLowerCase()
EmailLower(email) ==
    CASE email = "Ana@KVR.io" -> "ana@kvr.io"
      [] email = "CY@tah.io" -> "cy@tah.io"
      [] OTHER -> email

\* prisma.usuario.findUnique({ where: { email } }): the ids of the rows
FindByEmail(rows, email) == {id \in DOMAIN rows : rows[id].email = email}

\* res.status(status).json({ success, error })
LoginResponse(status, error) == [status |-> status, error |-> error]

\* the login handler: the response it sends
login(rows, email, password) ==
    IF email = "" \/ password = ""
    THEN LoginResponse(400, "Email and password are required")
    ELSE LET found == FindByEmail(rows, EmailLower(email))
         IN  IF found = {}
             THEN LoginResponse(401, "Invalid email or password")
             ELSE LET user == rows[CHOOSE id \in found : TRUE]
                  IN  IF ~user.isActive
                      THEN LoginResponse(401, "Account is disabled")
                      ELSE IF user.passwordHash = NoHash
                      THEN LoginResponse(500, "Login failed")
                      ELSE IF user.passwordHash # Hash(password)
                      THEN LoginResponse(401, "Invalid email or password")
                      ELSE LoginResponse(200, "")

\* the accounts of prisma.usuario: a local account, and a second account
\* that is local or the shadow of an external identity
LoginAccounts ==
    {("u1" :> [tahUserId |-> Null, email |-> "ana@kvr.io",
               roles |-> <<"ADMIN">>, orgs |-> {"o1"}, isActive |-> a1,
               passwordHash |-> Hash("pw1"), lastLoginAt |-> NoDate])
     @@ ("s1" :> [tahUserId |-> t2, email |-> "cy@tah.io",
                  roles |-> <<"USER">>, orgs |-> {}, isActive |-> a2,
                  passwordHash |-> IF t2 = Null THEN Hash("pw2") ELSE NoHash,
                  lastLoginAt |-> NoDate]) :
        a1 \in BOOLEAN, a2 \in BOOLEAN, t2 \in {Null, "tah-1"}}

InitLogin ==
    /\ cfg \in {c \in Configs : c.authMode = "local"}
    /\ now = 0
    /\ apiKeys = SeededKeys
    /\ resources = SeededResources
    /\ issued = {}
    /\ pendingUsage = << >>
    /\ last = NoRequest
    /\ recorded = [id \in DOMAIN SeededKeys |-> 0]
    /\ svc = NoCall
    /\ shadowUsers \in LoginAccounts
    /\ jwksCache = NoJwks
    /\ jwksCacheExpiry = 0
    /\ tahCall = NoTahCall
    /\ resp = NoResponse
    /\ InitProc

\* POST /auth/login: the response, and lastLoginAt of the user logged in
Login(email, password) ==
    \E r \in {login(shadowUsers, email, password)} :
        /\ resp' = [route |-> "login", status |-> r.status,
                    error |-> r.error, email |-> email,
                    password |-> password, before |-> shadowUsers]
        /\ shadowUsers' =
              IF r.status = 200
              THEN LET id == CHOOSE i \in FindByEmail(shadowUsers,
                                                      EmailLower(email)) :
                                 TRUE
                   IN  [shadowUsers EXCEPT ![id].lastLoginAt = now]
              ELSE shadowUsers
        /\ UNCHANGED <<cfg, now, apiKeys, resources, issued, pendingUsage,
                       last, recorded, svc, jwksCache, jwksCacheExpiry,
                       tahCall, procVars>>

LoginEmails == {"", "ana@kvr.io", "Ana@KVR.io", "cy@tah.io", "zed@kvr.io"}

LoginPasswords == {"", "pw1", "pw2", "guess"}

NextLogin ==
    \/ \E email \in LoginEmails, password \in LoginPasswords :
          Login(email, password)
    \/ Tick

SpecLogin == InitLogin /\ [][NextLogin]_vars

(***************************************************************************)
(* Properties of the middlewares                                           *)
(***************************************************************************)
\* C4: every request entering an authentication middleware ends in exactly
\* one terminal outcome, the downstream handler invoked or one error
\* response sent, the resource and project routes included.
C4_OneTerminalOutcome ==
    last.mw # "none" => last.out.nextCalled + last.out.responses = 1

\* a request to a resource route that was neither passed on nor answered
C4_Witness ==
    /\ last.mw = "route"
    /\ last.headers.xApiKey = OrcKey
    /\ last.out.nextCalled = 0
    /\ last.out.responses = 0

\* the Bearer token of the request in `last`
PresentedToken == Substring(last.headers.authorization, 7)

\* the hybrid middleware took the JWT branch and the token verified
JwtPrincipal ==
    /\ last.mw = "hybrid"
    /\ ~last.out.validation.called
    /\ StartsWith(last.headers.authorization, BearerPrefix)
    /\ LocalVerifies(PresentedToken, last.at)

\* the hybrid middleware took the API key branch and nothing but the
\* organization can stand against the key
KeyPrincipal ==
    /\ last.mw = "hybrid"
    /\ KeyFound
    /\ last.before.isActive
    /\ ~KeyExpired
    /\ EffectiveUsed < last.before.rateLimit
    /\ ~ScopeMissing(last.before, last.options.scope)
    /\ ~WorkflowDenied(last.before, RequestedResource)
    /\ last.before.userId \in DOMAIN Usuarios

PrimaryOrg ==
    IF KeyPrincipal THEN last.before.orgId
    ELSE JwtTable[PresentedToken].orgId

AccessibleOrgs ==
    IF KeyPrincipal THEN {last.before.orgId} \ {Null}
    ELSE JwtTable[PresentedToken].orgIds

\* C6: a request naming in X-Organization-Id an organization other than the
\* principal's primary one proceeds only when that organization is in the
\* principal's accessible list, with the requested organization as its
\* effective one, and is answered 403 otherwise, for JWT and API key
\* principals alike; the effective organization of an admitted request is
\* never outside the principal's own.
C6_RequestedOrgChecked ==
    (JwtPrincipal \/ KeyPrincipal)
    => /\ (last.headers.xOrg # Null /\ last.headers.xOrg # PrimaryOrg)
          => IF last.headers.xOrg \in AccessibleOrgs
             THEN last.out.nextCalled = 1 /\ last.out.org = last.headers.xOrg
             ELSE last.out.nextCalled = 0 /\ last.out.status = 403
       /\ (last.out.nextCalled = 1 /\ last.out.org # Null)
          => last.out.org \in AccessibleOrgs \cup {PrimaryOrg}

\* a key bound to no organization admitted into the organization the
\* header names
C6_Witness ==
    /\ KeyPrincipal
    /\ last.before.orgId = Null
    /\ last.headers.xOrg = "o2"
    /\ last.out.nextCalled = 1
    /\ last.out.org = "o2"

\* C8: the middlewares answer a credential problem with 401 when the
\* credential is missing, invalid or expired, the key inactive or expired or
\* its owner missing, with 429 when the rate limit is exhausted, with 403
\* for a scope, workflow or organization denial, and never with a 5xx.
C8_StatusPerProblem ==
    /\ last.out.responses = 1 => last.out.status \in {401, 403, 429}
    /\ (last.out.validation.called /\ ~last.out.validation.valid)
       => last.out.status =
             CASE last.out.validation.error
                     \in {ErrInvalid, ErrInactive, ErrExpired} -> 401
               [] last.out.validation.error = ErrRate -> 429
               [] OTHER -> 403
    /\ (/\ last.out.responses = 1
        /\ ~last.out.validation.called \/ last.out.validation.valid)
       => last.out.status =
             IF last.out.error = "Access denied to requested organization"
             THEN 403 ELSE 401

\* a key lacking the scope the middleware requires, answered 401
C8_Witness ==
    /\ last.mw \in {"hybrid", "apikey"}
    /\ last.out.validation.error = ErrScope
    /\ last.out.status = 401

(***************************************************************************)
(* Properties of key issuance                                              *)
(***************************************************************************)
\* the issued key the request in `last` presents, NoText when none
PresentedIssuedKey ==
    IF last.headers.xApiKey \in issued THEN last.headers.xApiKey
    ELSE IF \E k \in issued : last.headers.authorization = Bearer(k)
    THEN PresentedToken
    ELSE NoText

IssuedRow(k) == apiKeys[CHOOSE id \in FindByHash(apiKeys, hashApiKey(k)) : TRUE]

\* C3: every raw key issued is recognised by extractApiKey in X-API-Key and
\* as a Bearer token, so an issued key that is active, unexpired and under
\* its limit authenticates the request as its owner; a key of the issued
\* format whose hash is not stored is answered 401 'Invalid API key'.
C3_IssuedKeysRecognised ==
    /\ \A k \in issued :
          /\ extractApiKey(WithOrg(InHeader(k), Null)) = k
          /\ extractApiKey(WithOrg(AsBearer(k), Null)) = k
    /\ (/\ last.mw \in {"hybrid", "apikey"}
        /\ PresentedIssuedKey # NoText
        /\ IssuedRow(PresentedIssuedKey).userId \in DOMAIN Usuarios
        /\ last.recordedBefore < IssuedRow(PresentedIssuedKey).rateLimit)
       => /\ last.out.nextCalled = 1
          /\ last.out.user.id = IssuedRow(PresentedIssuedKey).userId
    /\ (/\ last.mw \in {"hybrid", "apikey"}
        /\ UnknownKvrKey \in {last.headers.xApiKey, PresentedToken})
       => /\ last.out.status = 401
          /\ last.out.validation.error = ErrInvalid

\* an issued key presented in X-API-Key to the hybrid middleware and
\* answered 401 without reaching validateApiKey
C3_Witness ==
    /\ last.mw = "hybrid"
    /\ last.headers.xApiKey \in issued
    /\ ~last.out.validation.called
    /\ last.out.status = 401
    /\ last.out.error = "No authentication provided"

(***************************************************************************)
(* Properties of the scope guard and the resource service                  *)
(***************************************************************************)
\* C5: every query or mutation made for an authenticated request stays in
\* the request's effective organization: no record of another organization
\* is read, updated or deleted, whatever the principal's organization
\* context, a principal with no organization included.
C5_TenantIsolation ==
    svc.op # "none" => \A o \in svc.touched : o = Null \/ o = svc.orgId

\* a principal with no organization deleting a record of organization o1
C5_Witness ==
    /\ svc.op = "delete"
    /\ svc.status = 200
    /\ svc.orgId = Null
    /\ svc.touched = {"o1"}

\* C10: a request authenticated by API key passes the scope requirement s
\* exactly when s is in the key's scope set: the validator reports the
\* missing scope and the requireScope guard answers 403 otherwise; a
\* request authenticated by JWT passes requireScope whatever s is.
C10_ScopeGate ==
    /\ (svc.op # "none" /\ last.out.authMethod = "api_key")
       => (svc.status # 403 <=> RouteScope(svc.op) \in last.before.scopes)
    /\ (svc.op # "none" /\ last.out.authMethod = "jwt") => svc.status # 403
    /\ (/\ PassesEarlyChecks
        /\ EffectiveUsed < last.before.rateLimit
        /\ ~WorkflowDenied(last.before, RequestedResource)
        /\ last.options.scope # Null)
       => /\ last.out.validation.valid
             <=> last.options.scope \in last.before.scopes
          /\ ~last.out.validation.valid
             => last.out.validation.error = ErrScope

\* a key scoped to resources:read, admitted, refused by the guard of a
\* route that requires resources:write
C10_Witness ==
    /\ svc.op = "update"
    /\ last.out.authMethod = "api_key"
    /\ last.before.scopes = {"resources:read"}
    /\ svc.status = 403

(***************************************************************************)
(* Properties of the guards                                                *)
(***************************************************************************)
\* C11: an API key request for resource id r is admitted when the key's
\* workflow allow-list is empty or contains r and rejected when the list is
\* non-empty without r: validateApiKey reports the workflow reason and the
\* checkWorkflowAccess guard answers 403; a request authenticated by JWT
\* always passes checkWorkflowAccess.
C11_WorkflowAllowList ==
    /\ (/\ last.mw = "hybrid"
        /\ PassesEarlyChecks
        /\ EffectiveUsed < last.before.rateLimit
        /\ ~ScopeMissing(last.before, last.options.scope)
        /\ RequestedResource # Null)
       => /\ last.out.validation.valid
             <=> \/ last.before.workflowIds = {}
                 \/ RequestedResource \in last.before.workflowIds
          /\ ~last.out.validation.valid
             => /\ last.out.validation.error = ErrWorkflow
                /\ last.out.nextCalled = 0
    /\ (svc.op = "checkWorkflowAccess" /\ last.out.authMethod = "api_key")
       => /\ svc.status \in {200, 403}
          /\ svc.status = 200
             <=> \/ last.before.workflowIds = {}
                 \/ svc.id \in last.before.workflowIds
    /\ (svc.op = "checkWorkflowAccess" /\ last.out.authMethod = "jwt")
       => svc.status = 200

\* a key allowed r1 only, admitted by the middleware without a resource
\* check, refused by the guard for r2
C11_Witness ==
    /\ svc.op = "checkWorkflowAccess"
    /\ last.out.authMethod = "api_key"
    /\ last.before.workflowIds = {"r1"}
    /\ svc.id = "r2"
    /\ svc.status = 403

\* the roles an authorize guard was built for
AllowedRoles == {"ADMIN", "OWNER"}

\* C12: a request passes a role guard built by authorize exactly when the
\* principal's role list holds one of the allowed roles; otherwise it is
\* answered 403 (401 when there is no principal). The approve and reject
\* routes, guarded for ADMIN and OWNER, admit every authenticated principal
\* holding ADMIN or OWNER and reject every other.
C12_RoleGuard ==
    svc.op = "authorize"
    => IF last.out.user = NoUser
       THEN svc.status = 401
       ELSE IF \E j \in DOMAIN last.out.user.roles :
                  last.out.user.roles[j] \in AllowedRoles
       THEN svc.status = 200
       ELSE svc.status = 403

\* an authenticated ADMIN answered 403 by the guard of the approve route
C12_Witness ==
    /\ svc.op = "authorize"
    /\ svc.id = "approve"
    /\ last.mw = "authenticate"
    /\ last.out.user.roles = <<"ADMIN">>
    /\ svc.status = 403

(***************************************************************************)
(* Properties of the unified middleware and the TAH middleware             *)
(***************************************************************************)
\* the unified middleware classified the presented token as external
ExternalRoute ==
    /\ last.mw = "authenticate"
    /\ extractToken(last.headers) # NoText
    /\ TokenRoute(cfg, PresentedToken) = "tah"

\* the unified middleware did not classify the presented token as external
\* and local authentication is enabled
LocalRoute ==
    /\ last.mw = "authenticate"
    /\ extractToken(last.headers) # NoText
    /\ TokenRoute(cfg, PresentedToken) = "local"

\* the last run of the shadow identity resolver hit a failing prisma call
ShadowPersistenceFailed ==
    tahCall.op = "upsertShadowUser" /\ tahCall.threw

\* C13: in the unified middleware a Bearer token classified as external
\* while external auth is enabled is verified by the external validator and
\* then passed through the shadow identity resolver, so the id of the
\* principal attached to the request is the local identity id (the external
\* id only when shadow creation is disabled or its persistence failed); a
\* token not classified as external is verified by the local validator when
\* local auth is enabled.
C13_ExternalPrincipalIsLocal ==
    /\ ExternalRoute
       => /\ last.out.nextCalled = 1 <=> TahVerifies(PresentedToken, last.at)
          /\ (/\ last.out.nextCalled = 1
              /\ cfg.createShadowUser
              /\ ~ShadowPersistenceFailed)
             => last.out.user.id \in DOMAIN shadowUsers
          /\ (last.out.nextCalled = 1 /\ ~cfg.createShadowUser)
             => last.out.user.id = JwtTable[PresentedToken].userId
    /\ LocalRoute
       => /\ last.out.nextCalled = 1
             <=> LocalVerifies(PresentedToken, last.at)
          /\ last.out.nextCalled = 1
             => last.out.user = validateLocalToken(PresentedToken)

\* an external token admitted by the unified middleware under the external
\* id, with shadow creation enabled and no identity row written
C13_Witness ==
    /\ ExternalRoute
    /\ cfg.createShadowUser
    /\ last.out.nextCalled = 1
    /\ last.out.user.authSource = "tah"
    /\ last.out.user.id = "tah-1"
    /\ shadowUsers = << >>
    /\ tahCall = NoTahCall

\* the last call was getSigningKey on the JWKS path
JwksCall == tahCall.op = "getSigningKey" /\ cfg.publicKey = NoPem

\* C14: while the JWKS cache is populated and the current time is before
\* its expiry, resolving a signing key performs no network fetch; a fetch is
\* attempted only when the cache is empty or expired, and after a successful
\* fetch the key returned is the fetched key whose kid equals the requested
\* one.
C14_CacheHitNoFetch ==
    JwksCall
    => /\ (tahCall.before.cached /\ tahCall.at < tahCall.expiryBefore)
          => /\ ~tahCall.fetched
             /\ jwksCache = tahCall.before
             /\ tahCall.result = FindSigningKey(tahCall.before.keys,
                                                tahCall.kid)
       /\ tahCall.fetched
          => ~tahCall.before.cached \/ tahCall.at >= tahCall.expiryBefore
       /\ (tahCall.fetched /\ tahCall.response.ok)
          => /\ jwksCache = [cached |-> TRUE, keys |-> tahCall.response.keys]
             /\ jwksCacheExpiry = tahCall.at + JwksCacheTtl * 1000
             /\ tahCall.result.ok
                => \E i \in DOMAIN tahCall.response.keys :
                      /\ tahCall.response.keys[i].kid = tahCall.kid
                      /\ tahCall.result = jwkToPem(tahCall.response.keys[i])

\* a key resolved from the cache within its lifetime, without a fetch,
\* after the endpoint has rotated the key
C14_Witness ==
    /\ JwksCall
    /\ tahCall.before = [cached |-> TRUE, keys |-> KeySetA]
    /\ tahCall.at > 0
    /\ tahCall.at < tahCall.expiryBefore
    /\ tahCall.response = Fetched(KeySetB)
    /\ ~tahCall.fetched
    /\ tahCall.kid = "k1"
    /\ tahCall.result = KeyResult(Pem("PUBLIC KEY", "nA"))

\* C15: if the JWKS fetch fails (network error or non-OK status) and a
\* previously fetched key set exists, even an expired one, the resolver
\* searches that stale set and returns its matching key instead of failing;
\* the fetch error propagates only when no key set has ever been cached.
C15_StaleFallback ==
    /\ (JwksCall /\ tahCall.fetched /\ ~tahCall.response.ok)
       => /\ jwksCache = tahCall.before
          /\ jwksCacheExpiry = tahCall.expiryBefore
          /\ tahCall.result =
                IF tahCall.before.cached
                THEN FindSigningKey(tahCall.before.keys, tahCall.kid)
                ELSE KeyError("JWKS fetch failed")
    /\ (JwksCall /\ tahCall.result = KeyError("JWKS fetch failed"))
       => /\ ~tahCall.before.cached
          /\ tahCall.fetched
          /\ ~tahCall.response.ok

\* a failed fetch after the cache expired, answered from the stale set
C15_Witness ==
    /\ JwksCall
    /\ tahCall.before = [cached |-> TRUE, keys |-> KeySetA]
    /\ tahCall.at >= tahCall.expiryBefore
    /\ tahCall.fetched
    /\ tahCall.response = NotOk
    /\ tahCall.kid = "k2"
    /\ tahCall.result = KeyResult(Pem("CERTIFICATE", "certA"))

\* the unified middleware was handed a Bearer token
TokenPresented ==
    /\ last.mw = "authenticate"
    /\ extractToken(last.headers) # NoText

\* C16: isTahToken(token) returns true exactly when the token's unverified
\* payload has an issuer equal to the configured external issuer, or an
\* audience claim, given either as a single string or as a list, that
\* contains the configured audience; it returns false for every malformed
\* token and never raises.
C16_TahTokenRecognised ==
    TokenPresented
    => /\ isTahToken(PresentedToken)
          <=> /\ IsWellFormedJwt(PresentedToken)
              /\ \/ JwtTable[PresentedToken].iss = TahIssuer
                 \/ TahAudience \in JwtTable[PresentedToken].aud.vals
       /\ TokenRoute(cfg, PresentedToken) = "tah"
          <=> isTahEnabled(cfg) /\ isTahToken(PresentedToken)

\* a token of another issuer whose audience is the single string `kvr`,
\* not classified as external and answered by the unified middleware in
\* TAH-only mode
C16_Witness ==
    /\ TokenPresented
    /\ PresentedToken = Jwt("8")
    /\ ~JwtTable[PresentedToken].aud.isArray
    /\ TahAudience \in JwtTable[PresentedToken].aud.vals
    /\ ~isTahToken(PresentedToken)
    /\ cfg.authMode = "tah"
    /\ last.out.status = 401

\* upsertShadowUser was called twice in a row for the same external
\* principal
CalledTwice ==
    /\ tahCall.op = "upsertShadowUser"
    /\ tahCall.prior.user = tahCall.user

\* the Identity rows of the external principal of the last call
IdentityRows ==
    {i \in DOMAIN shadowUsers : \/ shadowUsers[i].tahUserId = tahCall.user
                                \/ shadowUsers[i].email = tahCall.email}

\* C19: shadow identity resolution is idempotent: calling upsertShadowUser
\* twice with the same external principal returns the same local id both
\* times and leaves at most one Identity row for that external id and
\* email, whatever happened to the persistence steps of the first call.
C19_UpsertIdempotent ==
    CalledTwice
    => /\ tahCall.id = tahCall.prior.id
       /\ Cardinality(IdentityRows) <= 1

\* the first call created the row and then failed to link the
\* organization, returning the external id; the second call returns the
\* id of the row
C19_Witness ==
    /\ CalledTwice
    /\ cfg.createShadowUser
    /\ tahCall.prior.threw
    /\ tahCall.prior.id = tahCall.user
    /\ ~tahCall.threw
    /\ tahCall.id \in DOMAIN shadowUsers
    /\ Cardinality(IdentityRows) = 1

(***************************************************************************)
(* Properties of the permission guards                                     *)
(***************************************************************************)
\* the part of a feature id before its first '.'
Category(featureId) == Split(featureId, ".")[1]

\* the permissions that grant (featureId, action)
Granting(featureId, action) ==
    {<<"*">>, Perm("*", "*"),
     FeatureAction(featureId, action), FeatureAction(featureId, "*"),
     FeatureAction(Category(featureId), "*"),
     FeatureAction(Category(featureId), action)}

\* a permission guard has decided on an authenticated request
GuardDecided == svc.op \in PermissionGuards /\ last.out.user # NoUser

\* C20: for an external (TAH) principal, a permission check for
\* (featureId, action) passes exactly when the permission list contains
\* `*`, `*:*`, `featureId:action`, `featureId:*`, `category:*` or
\* `category:action`, where category is the part of featureId before its
\* first '.', and is answered 403 otherwise; principals from any other
\* source always pass; checkPermission and checkTahPermission both decide
\* this way.
C20_PermissionMatch ==
    GuardDecided
    => svc.status =
          IF last.out.user.authSource # "tah" THEN 200
          ELSE IF last.out.user.permissions
                     \cap Granting(svc.featureId, svc.action) # {}
          THEN 200
          ELSE 403

\* a TAH principal whose only permission is `billing:*`, let through by
\* checkTahPermission to write resources
C20_Witness ==
    /\ GuardDecided
    /\ svc.op = "checkTahPermission"
    /\ last.out.user.authSource = "tah"
    /\ last.out.user.permissions = {Perm("billing", "*")}
    /\ svc.featureId = <<"resources">>
    /\ svc.action = "write"
    /\ svc.status = 200

(***************************************************************************)
(* Properties of the API key routes                                        *)
(***************************************************************************)
\* the routes that return the key they generated
GeneratingRoutes == {"create", "regenerate"}

ReadingRoutes == {"list", "get", "update", "stats"}

\* C17: the raw API key secret is never persisted and is returned only in
\* the response of the create or regenerate call that generated it: the
\* store holds only its SHA-256 hash and display prefix, and no list, get,
\* update or stats response ever contains the raw key or its hash.
C17_RawKeyNotRetained ==
    /\ \A id \in DOMAIN apiKeys :
          /\ DOMAIN apiKeys[id] = KeyColumns
          /\ \A k \in issued :
                /\ apiKeys[id].keyPrefix # k
                /\ apiKeys[id].keyHash # k
                /\ apiKeys[id].keyHash = hashApiKey(k)
                   => apiKeys[id].keyPrefix = getKeyPrefix(k)
    /\ resp.route \in ReadingRoutes
       => \A item \in resp.data :
             /\ DOMAIN item \cap {"key", "keyHash"} = {}
             /\ "keyPrefix" \in DOMAIN item => item.keyPrefix \notin issued
    /\ (resp.route \in GeneratingRoutes /\ resp.status # 404)
       => /\ resp.key \in issued
          /\ resp.after.keyHash = hashApiKey(resp.key)
          /\ \A item \in resp.data :
                /\ item.key = resp.key
                /\ "keyHash" \notin DOMAIN item
                /\ item.keyPrefix = getKeyPrefix(resp.key)
                /\ item.keyPrefix # resp.key

\* a key created and regenerated, then listed: the list shows the prefix of
\* the second key and neither key
C17_Witness ==
    /\ Cardinality(issued) = 2
    /\ resp.route = "list"
    /\ \E item \in resp.data, k \in issued :
          /\ item.keyPrefix = getKeyPrefix(k)
          /\ item.keyPrefix # k
          /\ \E id \in DOMAIN apiKeys : apiKeys[id].keyHash = hashApiKey(k)

\* the last request presented a key to the hybrid middleware after the
\* last regeneration
AfterRegenerate ==
    /\ resp.route = "regenerate"
    /\ resp.status = 200
    /\ last.mw = "hybrid"
    /\ last.headers.xApiKey # NoText

\* C18: after a key is regenerated, the previous raw key no longer
\* validates (it is treated as an unknown key) while the newly returned raw
\* key does; the record's hash, prefix and rate-limit window-reset instant
\* are all rewritten and its usage counters (usageCount, rateLimitUsed) are
\* zero.
C18_RegenerateReplacesKey ==
    /\ (resp.route = "regenerate" /\ resp.status = 200)
       => /\ {"keyHash", "keyPrefix", "rateLimitReset"} \subseteq resp.written
          /\ resp.after.keyHash = hashApiKey(resp.key)
          /\ resp.after.keyHash # resp.before.keyHash
          /\ resp.after.keyPrefix = getKeyPrefix(resp.key)
          /\ resp.after.usageCount = 0
          /\ resp.after.rateLimitUsed = 0
    /\ (AfterRegenerate
        /\ hashApiKey(last.headers.xApiKey) = resp.before.keyHash)
       => /\ last.out.nextCalled = 0
          /\ last.out.validation.error = ErrInvalid
    /\ (AfterRegenerate
        /\ last.headers.xApiKey = resp.key
        /\ apiKeys[resp.id].isActive
        /\ last.recordedBefore < apiKeys[resp.id].rateLimit)
       => /\ last.out.nextCalled = 1
          /\ last.out.validation.valid

\* a key regenerated inside its rate-limit window: the counters are zero,
\* the window-reset instant is the old one, and the new key is answered 401
\* without being validated
C18_Witness ==
    /\ AfterRegenerate
    /\ resp.before.rateLimitUsed > 0
    /\ resp.before.rateLimitReset # NoDate
    /\ resp.after.rateLimitUsed = 0
    /\ resp.after.rateLimitReset = resp.before.rateLimitReset
    /\ last.headers.xApiKey = resp.key
    /\ ~last.out.validation.called
    /\ last.out.status = 401

(***************************************************************************)
(* Properties of the role mapping                                          *)
(***************************************************************************)
\* the trimmed, lower-cased form of a role name
Normalized(r) == trim(toLowerCase(r))

\* C21: mapTahRole is idempotent, total and depends only on the trimmed,
\* lower-cased form of its input: for every role value it returns a result,
\* mapping the result again gives the same result, any two inputs that are
\* equal after trimming and lower-casing map to the same result, and an
\* input with no table entry maps to its upper-cased form.
C21_RoleMapping ==
    tahCall.op = "mapTahRole"
    => /\ tahCall.result.kind = "string"
       /\ tahCall.again = tahCall.result
       /\ \A r \in RoleInputs :
             Normalized(r) = Normalized(tahCall.input)
             => mapTahRole(Text(r)) = tahCall.result
       /\ (/\ tahCall.input # << >>
           /\ Normalized(tahCall.input) \notin DOMAIN TAH_ROLE_MAPPING)
          => tahCall.result = Text(toUpperCase(tahCall.input))

\* a role name with no table entry and a leading blank: its mapping keeps
\* the blank, the mapping of the same name without the blank does not
C21_Witness ==
    /\ tahCall.op = "mapTahRole"
    /\ tahCall.input = <<" ", "x">>
    /\ tahCall.result = Text(<<" ", "X">>)
    /\ mapTahRole(Text(<<"x">>)) = Text(<<"X">>)
    /\ Normalized(<<" ", "x">>) = Normalized(<<"x">>)

(***************************************************************************)
(* Properties of the local token validator                                 *)
(***************************************************************************)
\* `authenticate` received a Bearer token that validateToken hands to the
\* local validator
LocalTokenPresented ==
    /\ last.mw = "authenticate"
    /\ StartsWith(last.headers.authorization, BearerPrefix)
    /\ TokenRoute(cfg, PresentedToken) = "local"

\* C22: for every token that passes local verification validateLocalToken
\* returns a principal whose authSource is 'local' and whose role list is
\* not empty (taken from `roles`, else from `role`, else ['USER']); a token
\* that fails local verification yields no principal and the request is
\* rejected.
C22_LocalPrincipal ==
    LocalTokenPresented
    => IF LocalVerifies(PresentedToken, last.at)
       THEN /\ last.out.nextCalled = 1
            /\ last.out.user.authSource = "local"
            /\ Len(last.out.user.roles) > 0
       ELSE /\ last.out.nextCalled = 0
            /\ last.out.user = NoUser
            /\ last.out.status = 401

\* a locally verified token whose `roles` claim is an empty array is
\* admitted with an empty role list
C22_Witness ==
    /\ LocalTokenPresented
    /\ LocalVerifies(PresentedToken, last.at)
    /\ verifyAccessToken(PresentedToken).roles = RolesClaim(<< >>)
    /\ last.out.nextCalled = 1
    /\ last.out.user.authSource = "local"
    /\ last.out.user.roles = << >>

(***************************************************************************)
(* Properties of the development bypass                                    *)
(***************************************************************************)
\* `authenticate` served a request that carried no Bearer credential
NoBearerPresented ==
    /\ last.mw = "authenticate"
    /\ ~StartsWith(last.headers.authorization, BearerPrefix)

\* C23: `authenticate` rejects a request without a Bearer credential with
\* 401 and does not call the downstream handler, unless the development
\* bypass flag is enabled; the dev-bypass principal is attached only when
\* the flag is enabled and no Bearer token was presented (a presented but
\* invalid token is still rejected); and the bypass warning is logged once,
\* on the first bypassed request.
C23_DevBypass ==
    /\ (NoBearerPresented /\ ~cfg.bypass)
       => /\ last.out.status = 401
          /\ last.out.nextCalled = 0
          /\ last.out.user = NoUser
    /\ (NoBearerPresented /\ cfg.bypass)
       => /\ last.out.user = DEV_USER
          /\ last.out.nextCalled = 1
    /\ (last.mw = "authenticate" /\ last.out.user.authSource = "dev-bypass")
       => /\ cfg.bypass
          /\ NoBearerPresented
          /\ warnings = 1
    /\ warnings <= 1
    /\ warnings = 1 => cfg.bypass /\ bypassWarningLogged

\* a bypassed request served in production: no warning was logged
C23_Witness ==
    /\ NoBearerPresented
    /\ cfg.bypass
    /\ cfg.nodeEnv = "production"
    /\ last.out.user = DEV_USER
    /\ last.out.nextCalled = 1
    /\ warnings = 0
    /\ ~bypassWarningLogged

(***************************************************************************)
(* Properties of the login route                                           *)
(***************************************************************************)
\* the login handler answered a request that carried an email and a
\* password which do not authenticate: no active account has that email
\* and that password
LoginRefused ==
    /\ resp.route = "login"
    /\ resp.email # "" /\ resp.password # ""
    /\ ~\E id \in DOMAIN resp.before :
          /\ resp.before[id].email = EmailLower(resp.email)
          /\ resp.before[id].isActive
          /\ resp.before[id].passwordHash = Hash(resp.password)

\* C24: POST /auth/login with an email and a password that do not
\* authenticate answers with the same status (401) and the same body
\* whether or not an account with that email exists and whatever the state
\* of the stored account.
C24_LoginUniformRefusal ==
    LoginRefused
    => /\ resp.status = 401
       /\ resp.error = "Invalid email or password"

\* a wrong password on a disabled account: the answer names the account
\* state
C24_Witness ==
    /\ LoginRefused
    /\ resp.email = "ana@kvr.io"
    /\ resp.password = "guess"
    /\ ~resp.before["u1"].isActive
    /\ resp.status = 401
    /\ resp.error = "Account is disabled"

(***************************************************************************)
(* Properties of concurrent requests on one API key                        *)
(***************************************************************************)
\* the calls admitted in the window that ends at `window`
AdmittedIn(window) ==
    {i \in DOMAIN admissions :
        admissions[i].admitted /\ admissions[i].window = window}

\* the windows in which a call was decided
Windows == {admissions[i].window : i \in DOMAIN admissions}

\* C25: with at most N requests on one key in flight between their
\* validation and the recording of their usage, more than rateLimit
\* requests can be admitted in one window, but never more than
\* rateLimit + N - 1.
C25_BoundedOvershoot ==
    \A window \in Windows :
        Cardinality(AdmittedIn(window))
            <= apiKeys[1].rateLimit + MaxInFlight - 1

\* three requests admitted in one window of a key whose limit is 1, never
\* more than two of them in flight
C25_Witness ==
    /\ apiKeys[1].rateLimit = 1
    /\ \E window \in Windows : Cardinality(AdmittedIn(window)) = 3

\* the reset decisions taken so far
Resets == {i \in DOMAIN admissions : admissions[i].didReset}

\* C26: across any interleaving of validateApiKey and updateApiKeyUsage
\* calls on one key the stored rateLimitReset never moves to an earlier
\* instant: no step writes a rateLimitReset earlier than the stored one, so
\* a usage update never overwrites a window reset performed meanwhile by a
\* validation and a reset window is not reset again before its new instant.
C26_ResetNeverMovesBack ==
    [][apiKeys'[1].rateLimitReset >= apiKeys[1].rateLimitReset]_vars

\* one validation has reset the window, a usage update wrote afterwards,
\* and the stored rateLimitReset is earlier than the instant of that reset
C26_Witness ==
    /\ Cardinality(Resets) = 1
    /\ recorded[1] > 0
    /\ \E i \in Resets : apiKeys[1].rateLimitReset < admissions[i].window
    /\ apiKeys[1].rateLimitReset < now

(***************************************************************************)
(* Properties of the JWKS cache under concurrent refreshes and rotation    *)
(***************************************************************************)
\* a getSigningKey call of the JWKS path has completed
ResolveDone == tahCall.op = "getSigningKey" /\ cfg.publicKey = NoPem

\* C27: the JWKS cache is replaced only by a successful fetch: a failed
\* fetch leaves the cached key set and its expiry unchanged, and after any
\* interleaving of concurrent refreshes the cache holds the complete key set
\* of the last successful fetch together with the expiry written by that
\* same refresh, never a mix of two refreshes.
C27_CacheOfOneRefresh ==
    /\ (ResolveDone /\ ~(tahCall.fetched /\ tahCall.response.ok))
       => /\ jwksCache = tahCall.landedOn
          /\ jwksCacheExpiry = tahCall.landedOnExpiry
    /\ jwksCache.cached <=> LastWritten.any
    /\ jwksCache.cached
       => /\ jwksCache.keys = LastWritten.keys
          /\ jwksCacheExpiry = LastWritten.expiry

\* two refreshes were in flight together; the one that started later landed
\* first, and the cache now holds the key set and the earlier expiry of the
\* one that landed last
C27_Witness ==
    /\ ResolveDone
    /\ tahCall.fetched /\ tahCall.response = Fetched(KeySetA)
    /\ tahCall.landedOn = [cached |-> TRUE, keys |-> KeySetRotated]
    /\ tahCall.landedOnExpiry > tahCall.at + JwksCacheTtl * 1000
    /\ ~tahCall.before.cached
    /\ jwksCache = [cached |-> TRUE, keys |-> KeySetA]
    /\ jwksCacheExpiry = tahCall.at + JwksCacheTtl * 1000

\* the completed call asked for a kid that the key set cached at its start
\* did not hold
KidAbsentAtStart ==
    /\ ResolveDone
    /\ tahCall.before.cached
    /\ KidMatches(tahCall.before.keys, tahCall.kid) = {}

\* C30: once the identity provider signs with a kid that is absent from the
\* cached key set, resolving that kid while the cache is unexpired fails
\* with 'signing key not found' and without a fetch; a resolve after the
\* cache expiry fetches, and when its fetch succeeds the key of that kid in
\* the fetched set is returned; the cache never stays valid for more than
\* one TTL after the refresh that wrote it, so a rotated key is accepted at
\* the latest one TTL after the last refresh.
C30_RotatedKeyWithinTtl ==
    /\ (KidAbsentAtStart /\ tahCall.at < tahCall.expiryBefore)
       => /\ ~tahCall.fetched
          /\ tahCall.result = KeyError("Signing key not found")
    /\ (KidAbsentAtStart /\ tahCall.at >= tahCall.expiryBefore)
       => /\ tahCall.fetched
          /\ (/\ tahCall.response.ok
              /\ KidMatches(tahCall.response.keys, tahCall.kid) # {})
             => /\ tahCall.result.ok
                /\ \E i \in KidMatches(tahCall.response.keys, tahCall.kid) :
                      tahCall.result = jwkToPem(tahCall.response.keys[i])
    /\ jwksCache.cached => jwksCacheExpiry <= now + JwksCacheTtl * 1000

\* the rotated kid k4, absent from the cached set, resolved after the cache
\* expiry by a fetch of the rotated key set
C30_Witness ==
    /\ KidAbsentAtStart
    /\ tahCall.kid = "k4"
    /\ tahCall.before.keys = KeySetA
    /\ tahCall.at >= tahCall.expiryBefore
    /\ tahCall.fetched
    /\ tahCall.response = Fetched(KeySetRotated)
    /\ tahCall.result = KeyResult(Pem("PUBLIC KEY", "nR"))

(***************************************************************************)
(* Properties of the choice of validator                                   *)
(***************************************************************************)
\* C28: a token is verified only by the validator of the scheme it is
\* classified as: a token classified as external while external auth is
\* disabled, or a token not classified as external while local auth is
\* disabled, is rejected as 'authentication method unavailable' and is
\* never handed to the other validator.
C28_ValidatorOfClassifiedScheme ==
    TokenPresented
    => /\ last.out.validator = "tah" => isTahToken(PresentedToken)
       /\ last.out.validator = "local" => ~isTahToken(PresentedToken)
       /\ (\/ isTahToken(PresentedToken) /\ ~isTahEnabled(cfg)
           \/ ~isTahToken(PresentedToken) /\ ~isLocalEnabled(cfg))
          => /\ last.out.validator = "none"
             /\ last.out.status = 401
             /\ last.out.nextCalled = 0

\* a token classified as external, presented while external auth is
\* disabled, was handed to the local validator
C28_Witness ==
    /\ TokenPresented
    /\ isTahToken(PresentedToken)
    /\ ~isTahEnabled(cfg)
    /\ isLocalEnabled(cfg)
    /\ last.out.validator = "local"
    /\ last.out.status = 401

(***************************************************************************)
(* Properties of the role sources                                          *)
(***************************************************************************)
\* the claim is present and holds at least one role
NonEmpty(v) ==
    \/ v[1] = "array" /\ Len(v) > 1
    \/ v[1] = "string" /\ v[2] # << >>

\* positions of the sources of the payload that are not empty
NonEmptySources(payload) ==
    {i \in DOMAIN RoleSources : NonEmpty(payload[RoleSources[i]])}

\* C29: validateTahToken takes the raw roles from the first non-empty source
\* in the order app-scoped roles, app-scoped role, top-level roles array,
\* role, org_role, perfil, perfis, groups, realm_access.roles; an earlier
\* source that is present but empty does not stop the search, and ['USER']
\* is the result only when every source is absent or empty.
C29_FirstNonEmptySource ==
    tahCall.op = "validateTahToken"
    => LET found == NonEmptySources(tahCall.payload)
       IN  IF found = {}
           THEN /\ tahCall.rawRoles = << >>
                /\ tahCall.roles = <<Text(<<"U", "S", "E", "R">>)>>
           ELSE LET source == RoleSources[FirstOf(found)]
                IN  /\ tahCall.rawRoles = <<RoleNameOf(source)>>
                    /\ tahCall.roles
                       = <<mapTahRole(Text(RoleNameOf(source)))>>

\* app-scoped roles present as an empty array, a top-level roles array
\* holding a role: the search stopped at the empty array
C29_Witness ==
    /\ tahCall.op = "validateTahToken"
    /\ tahCall.payload["appRoles"] = Arr(<< >>)
    /\ tahCall.payload["roles"] = Arr(<<RoleNameOf("roles")>>)
    /\ tahCall.rawRoles = << >>
    /\ tahCall.roles = <<Text(<<"U", "S", "E", "R">>)>>


====
